---- MODULE Spec2Model ----
(***************************************************************************)
(* A model of apollo-datasource-dynamodb: the DynamoDBDataSource table     *)
(* facade (src/src/DynamoDBDataSource.ts), the cache-through store         *)
(* DynamoDBCacheImpl and the key builders of utils.ts, in front of a       *)
(* DynamoDB table (the backing store) and a KeyValueCache.                 *)
(*                                                                         *)
(* Strings are TLA+ strings, concatenated with \o as the code does with    *)
(* template literals.  An optional value is a sequence of length at most   *)
(* one: <<>> is JavaScript's undefined, <<v>> is the value v.              *)
(*                                                                         *)
(* Every handler is a function from the world before the call (store,      *)
(* cache), its arguments and the faults the two services raise during the  *)
(* call, to the world after it, the calls it issued on the two services in *)
(* order, and what it returned or threw.                                   *)
(***************************************************************************)
EXTENDS Integers, Sequences, FiniteSets, TLC

VARIABLES store, cache, call

vars == <<store, cache, call>>

-----------------------------------------------------------------------------
(* Bounds *)

\* the largest time-to-live, in seconds, a caller passes
MaxTtl == 2

\* the partition-key values of the records
Ids == {"a", "b"}
\* the values of their non-key attribute `test`
Vals == {"x", "y"}

-----------------------------------------------------------------------------
(* Values *)

None == <<>>
Some(v) == <<v>>

\* JavaScript truthiness of an optional number: `if (ttl)`
Truthy(ttl) == ttl # None /\ ttl[1] # 0

\* the ttl arguments a caller passes: omitted, zero, negative, positive
TtlArgs == {None} \cup {Some(n) : n \in -1..MaxTtl}

\* TestHashOnlyItem { id: string; test: string }
Items == [id : Ids, test : Vals]

\* the facade under test: new TestHashOnly('test_hash_only', keySchema)
tableName == "t"
tableKeySchema == <<"id">>
\* a table of the same store that this facade was not constructed for
otherTable == "u"
TableNames == {tableName, otherTable}

\* a Key as the caller writes it: attribute name/value pairs in the
\* caller's order ({ id: 'testId' })
Keys == {<<<<"id", i>>>> : i \in Ids}

-----------------------------------------------------------------------------
(* Errors and faults *)

\* what a failing service call rejects with: an Error carrying a message, or
\* a value without one (mockRejectedValueOnce(null))
Rejections == {[name |-> "Error", message |-> "Error"],
               [name |-> "null", message |-> ""]}

\* new ApolloError(message)
ApolloError(message) == [name |-> "ApolloError", message |-> message]

\* `err?.message || dflt`
MessageOr(err, dflt) == IF err.message # "" THEN err.message ELSE dflt

-----------------------------------------------------------------------------
(* utils.ts: the key builders *)

CACHE_PREFIX_KEY == "sup:"

\* the default TTL of DynamoDBCache.ts; its value appears in none of the
\* sources at hand, and no path of the facade reaches the default (every
\* cache write of the facade passes its own ttl)
TTL_SEC == 1800

\* buildKey that takes the item's other attribute along with the key's
RECURSIVE buildKeyKeepsAttributes(_, _)
buildKeyKeepsAttributes(keySchema, item) ==
  IF keySchema = <<>> THEN <<<<"test", item.test>>>>
  ELSE <<<<Head(keySchema), item[Head(keySchema)]>>>>
         \o buildKeyKeepsAttributes(Tail(keySchema), item)

\* buildKey(keySchema, item): the key attributes of the item, in key-schema
\* order
RECURSIVE buildKey(_, _)
buildKey(keySchema, item) ==
  IF keySchema = <<>> THEN <<>>
  ELSE <<<<Head(keySchema), item[Head(keySchema)]>>>>
         \o buildKey(Tail(keySchema), item)

\* the "name-value" fragments of a key joined by "-"
RECURSIVE JoinFragments(_)
JoinFragments(key) ==
  IF key = <<>> THEN ""
  ELSE LET fragment == Head(key)[1] \o "-" \o Head(key)[2]
       IN IF Len(key) = 1 THEN fragment
          ELSE fragment \o "-" \o JoinFragments(Tail(key))

\* buildCacheKey that renders the key's attributes last to first
buildCacheKeyRangeFirst(cachePrefix, table, key) ==
  cachePrefix \o table \o ":"
    \o JoinFragments([i \in 1..Len(key) |-> key[Len(key) + 1 - i]])

\* buildCacheKey(cachePrefix, tableName, key)
buildCacheKey(cachePrefix, table, key) ==
  cachePrefix \o table \o ":" \o JoinFragments(key)

\* a CacheKeyItemMap is a JavaScript object: its entries <<cache key, item>>
\* in insertion order; assigning to a key that is already there replaces the
\* value where the key stands
MapHas(m, k) == \E i \in 1..Len(m) : m[i][1] = k

MapGet(m, k) == m[CHOOSE i \in 1..Len(m) : m[i][1] = k][2]

MapPut(m, k, v) ==
  IF MapHas(m, k)
  THEN [i \in 1..Len(m) |-> IF m[i][1] = k THEN <<k, v>> ELSE m[i]]
  ELSE Append(m, <<k, v>>)

MapKeys(m) == {m[i][1] : i \in 1..Len(m)}

\* the items of the batch entered one after the other into the map `acc`
RECURSIVE AddItemsToMap(_, _, _, _, _)
AddItemsToMap(acc, cachePrefix, table, keySchema, items) ==
  IF items = <<>> THEN acc
  ELSE AddItemsToMap(
         MapPut(acc,
                buildCacheKey(cachePrefix, table, buildKey(keySchema, Head(items))),
                Head(items)),
         cachePrefix, table, keySchema, Tail(items))

\* buildItemsCacheMap(cachePrefix, tableName, keySchema, items)
buildItemsCacheMap(cachePrefix, table, keySchema, items) ==
  AddItemsToMap(<<>>, cachePrefix, table, keySchema, items)

\* every cache key a call of the model can derive
CacheKeys == {buildCacheKey(CACHE_PREFIX_KEY, t, k) : t \in TableNames, k \in Keys}

-----------------------------------------------------------------------------
(* JSON *)

\* JSON.stringify(item) of a TestHashOnlyItem
Stringify(item) ==
  "{\"id\":\"" \o item.id \o "\",\"test\":\"" \o item.test \o "\"}"

\* a cached string that is not JSON (a truncated write of another client)
Corrupt == "{"

\* whether JSON.parse(s) returns rather than throws
Parseable(s) == \E item \in Items : Stringify(item) = s

\* JSON.parse(s), for a parseable s
Parse(s) == CHOOSE item \in Items : Stringify(item) = s

-----------------------------------------------------------------------------
(* The two services.  A world w is [store, cache, calls]: the facade's     *)
(* table, the key-value cache and the calls issued so far.  A step returns *)
(* [w, thrown, ret]: the world after it, the rejection if it rejected      *)
(* (None if it resolved) and the value it resolved with.                   *)

Logged(w, req) == [w EXCEPT !.calls = Append(@, req)]

Resolved(w, ret) == [w |-> w, thrown |-> None, ret |-> ret]

Rejected(w, err) == [w |-> w, thrown |-> Some(err), ret |-> None]

\* a req on a service as the log keeps it: the request, whether it
\* resolved, and what it resolved with
Outcome(req, ok, ret) ==
  [x \in DOMAIN req \cup {"ok", "ret"} |->
     IF x = "ok" THEN ok ELSE IF x = "ret" THEN ret ELSE req[x]]

\* a service req that rejects: logged, nothing changed
Fails(w, req, err) == Rejected(Logged(w, Outcome(req, FALSE, None)), err)

\* a service req that resolves with ret and leaves the world w1
Answers(w1, req, ret) == Resolved(Logged(w1, Outcome(req, TRUE, ret)), ret)

\* a table is a function from the ids it holds to its items
TableRemove(tbl, id) == [i \in DOMAIN tbl \ {id} |-> tbl[i]]

TablePut(tbl, item) ==
  [i \in DOMAIN tbl \cup {item.id} |-> IF i = item.id THEN item ELSE tbl[i]]

TableGet(tbl, id) == IF id \in DOMAIN tbl THEN Some(tbl[id]) ELSE None

\* the tables: every item is stored under its own id
Tables ==
  UNION {{tbl \in [D -> Items] : \A i \in D : tbl[i].id = i} : D \in SUBSET Ids}

EmptyTable == [i \in {} |-> i]

\* the content of a table at the time of a req: the facade's own table is
\* the state, another table is what its writers made of it (env.other)
TableOf(w, env, table) == IF table = tableName THEN w.store ELSE env.other

KeyId(key) == key[1][2]

\* ConditionExpression, evaluated by the store against the stored item
CondHolds(cond, stored, v) ==
  \/ cond = None
  \/ cond = Some("attribute_not_exists(id)") /\ stored = None
  \/ cond = Some("#test <> :test") /\ (stored = None \/ stored[1].test # v)

ConditionalCheckFailed ==
  [name |-> "ConditionalCheckFailedException",
   message |-> "The conditional request failed"]

\* dynamoDbDocClient.send(new GetCommand(input)): output.Item
GetCommand(w, env, table, key) ==
  LET req == [svc |-> "store", cmd |-> "Get", table |-> table, key |-> key]
  IN IF env.store THEN Fails(w, req, env.thrown)
     ELSE Answers(w, req, TableGet(TableOf(w, env, table), KeyId(key)))

\* dynamoDbDocClient.send(new PutCommand(input))
PutCommand(w, env, table, item, cond) ==
  LET req == [svc |-> "store", cmd |-> "Put", table |-> table, item |-> item]
  IN IF env.store THEN Fails(w, req, env.thrown)
     ELSE IF ~CondHolds(cond, TableGet(w.store, item.id), item.test)
     THEN Fails(w, req, ConditionalCheckFailed)
     ELSE Answers([w EXCEPT !.store = TablePut(@, item)], req, None)

\* dynamoDbDocClient.send(new UpdateCommand(input)) for 'SET #test = :test'
\* with ReturnValues ALL_NEW: output.Attributes, which the response carries
\* unless env.attrs is FALSE
UpdateCommand(w, env, table, key, v, cond) ==
  LET req == [svc |-> "store", cmd |-> "Update", table |-> table, key |-> key]
      updated == [id |-> KeyId(key), test |-> v]
  IN IF env.store THEN Fails(w, req, env.thrown)
     ELSE IF ~CondHolds(cond, TableGet(w.store, KeyId(key)), v)
     THEN Fails(w, req, ConditionalCheckFailed)
     ELSE Answers([w EXCEPT !.store = TablePut(@, updated)], req,
                  IF env.attrs THEN Some(updated) ELSE None)

\* dynamoDbDocClient.send(new DeleteCommand(input))
DeleteCommand(w, env, table, key) ==
  LET req == [svc |-> "store", cmd |-> "Delete", table |-> table, key |-> key]
  IN IF env.store THEN Fails(w, req, env.thrown)
     ELSE Answers([w EXCEPT !.store = TableRemove(@, KeyId(key))], req, None)

\* dynamoDbDocClient.send(new QueryCommand(input)): the page env.page the
\* store answers with
QueryCommand(w, env, input) ==
  LET req == [svc |-> "store", cmd |-> "Query", table |-> input.TableName]
  IN IF env.store THEN Fails(w, req, env.thrown)
     ELSE Answers(w, req, env.page)

\* dynamoDbDocClient.send(new ScanCommand(input))
ScanCommand(w, env, input) ==
  LET req == [svc |-> "store", cmd |-> "Scan", table |-> input.TableName]
  IN IF env.store THEN Fails(w, req, env.thrown)
     ELSE Answers(w, req, env.page)

\* the key-value cache is a function from the keys it holds to
\* [value, rem]: the string and the seconds it still lives
CacheRemove(c, k) == [x \in DOMAIN c \ {k} |-> c[x]]

CacheStore(c, k, entry) ==
  [x \in DOMAIN c \cup {k} |-> IF x = k THEN entry ELSE c[x]]

EmptyCache == [k \in {} |-> k]

\* keyValueCache.get(key)
KeyValueCacheGet(w, env, k) ==
  LET req == [svc |-> "cache", cmd |-> "get", key |-> k]
  IN IF env.cget THEN Fails(w, req, env.thrown)
     ELSE Answers(w, req,
                  IF k \in DOMAIN w.cache THEN Some(w.cache[k].value) ELSE None)

\* keyValueCache.set(key, value, { ttl }): an entry that lives ttl seconds
KeyValueCacheSet(w, env, k, value, ttl) ==
  LET req == [svc |-> "cache", cmd |-> "set", key |-> k, value |-> value,
               ttl |-> ttl]
  IN IF k \in env.cset THEN Fails(w, req, env.thrown)
     ELSE Answers([w EXCEPT !.cache =
                     IF ttl > 0 THEN CacheStore(@, k, [value |-> value, rem |-> ttl])
                     ELSE CacheRemove(@, k)],
                  req, None)

\* keyValueCache.delete(key): whether an entry was there
KeyValueCacheDelete(w, env, k) ==
  LET req == [svc |-> "cache", cmd |-> "delete", key |-> k]
  IN IF env.cdel THEN Fails(w, req, env.thrown)
     ELSE Answers([w EXCEPT !.cache = CacheRemove(@, k)], req,
                  Some(k \in DOMAIN w.cache))

-----------------------------------------------------------------------------
(* DynamoDBCache.ts: DynamoDBCacheImpl, the cache-through store.  Each     *)
(* method logs its own invocation (svc "dynamodbCache") before the calls   *)
(* it issues on the services.                                              *)

GetItemDefaultMessage == "An error occurred attempting to retrieve the item"

NotFoundMessage == "Item not found"

EvictDefaultMessage == "An error occurred trying to evict the item from the cache"

\* retrieveFromCache without its catch clause: a rejected get and a string
\* that does not parse reject the call
retrieveFromCacheThrows(w, env, key) ==
  LET w1 == Logged(w, [svc |-> "dynamodbCache", cmd |-> "retrieveFromCache",
                       key |-> key])
      got == KeyValueCacheGet(w1, env, key)
  IN IF got.thrown # None THEN Rejected(got.w, got.thrown[1])
     ELSE IF got.ret = None THEN Resolved(got.w, None)
     ELSE IF Parseable(got.ret[1]) THEN Resolved(got.w, Some(Parse(got.ret[1])))
     ELSE Rejected(got.w, [name |-> "SyntaxError",
                           message |-> "Unexpected end of JSON input"])

\* retrieveFromCache that catches what JSON.parse throws but not what get
\* rejects with
retrieveFromCacheCatchesParseOnly(w, env, key) ==
  LET w1 == Logged(w, [svc |-> "dynamodbCache", cmd |-> "retrieveFromCache",
                       key |-> key])
      got == KeyValueCacheGet(w1, env, key)
  IN IF got.thrown # None THEN Rejected(got.w, got.thrown[1])
     ELSE IF got.ret = None THEN Resolved(got.w, None)
     ELSE IF Parseable(got.ret[1]) THEN Resolved(got.w, Some(Parse(got.ret[1])))
     ELSE Resolved(got.w, None)

\* retrieveFromCache(key): the parsed item, or undefined when the key is
\* missing, get rejects or the value does not parse
retrieveFromCache(w, env, key) ==
  LET w1 == Logged(w, [svc |-> "dynamodbCache", cmd |-> "retrieveFromCache",
                       key |-> key])
      got == KeyValueCacheGet(w1, env, key)
  IN IF got.thrown # None THEN Resolved(got.w, None)
     ELSE IF got.ret = None THEN Resolved(got.w, None)
     ELSE IF Parseable(got.ret[1]) THEN Resolved(got.w, Some(Parse(got.ret[1])))
     ELSE Resolved(got.w, None)

\* setInCache with `ttl || TTL_SEC` for its default
setInCacheDefaultsFalsy(w, env, key, item, ttl) ==
  LET seconds == IF Truthy(ttl) THEN ttl[1] ELSE TTL_SEC
      w1 == Logged(w, [svc |-> "dynamodbCache", cmd |-> "setInCache",
                       key |-> key, item |-> item, ttl |-> seconds])
  IN KeyValueCacheSet(w1, env, key, Stringify(item), seconds)

\* setInCache(key, item, ttl = TTL_SEC)
setInCache(w, env, key, item, ttl) ==
  LET seconds == IF ttl = None THEN TTL_SEC ELSE ttl[1]
      w1 == Logged(w, [svc |-> "dynamodbCache", cmd |-> "setInCache",
                       key |-> key, item |-> item, ttl |-> seconds])
  IN KeyValueCacheSet(w1, env, key, Stringify(item), seconds)

\* the entries of the map written one after the other; `failed` is the
\* first rejection so far
RECURSIVE SetEntries(_, _, _, _, _)
SetEntries(w, env, entries, ttl, failed) ==
  IF entries = <<>>
  THEN [w |-> w, thrown |-> failed, ret |-> None]
  ELSE LET r == setInCache(w, env, Head(entries)[1], Head(entries)[2], ttl)
       IN SetEntries(r.w, env, Tail(entries), ttl,
                     IF failed = None THEN r.thrown ELSE failed)

\* setItemsInCache that gives up at the first entry the cache rejects
setItemsInCacheStopsAtFailure(w, env, items, ttl) ==
  LET seconds == IF ttl = None THEN TTL_SEC ELSE ttl[1]
      w1 == Logged(w, [svc |-> "dynamodbCache", cmd |-> "setItemsInCache",
                       items |-> items, ttl |-> seconds])
      rejected == {i \in 1..Len(items) : items[i][1] \in env.cset}
      last == IF rejected = {} THEN Len(items)
              ELSE CHOOSE i \in rejected : \A j \in rejected : i <= j
  IN SetEntries(w1, env, SubSeq(items, 1, last), Some(seconds), None)

\* setItemsInCache that does not hand its ttl on to setInCache
setItemsInCacheDropsTtl(w, env, items, ttl) ==
  LET seconds == IF ttl = None THEN TTL_SEC ELSE ttl[1]
      w1 == Logged(w, [svc |-> "dynamodbCache", cmd |-> "setItemsInCache",
                       items |-> items, ttl |-> seconds])
  IN SetEntries(w1, env, items, None, None)

\* setItemsInCache(items, ttl = TTL_SEC): every entry is attempted, then the
\* call rejects if one of them did
setItemsInCache(w, env, items, ttl) ==
  LET seconds == IF ttl = None THEN TTL_SEC ELSE ttl[1]
      w1 == Logged(w, [svc |-> "dynamodbCache", cmd |-> "setItemsInCache",
                       items |-> items, ttl |-> seconds])
  IN SetEntries(w1, env, items, Some(seconds), None)

\* removeItemFromCache that reports a failed delete as nothing removed
removeItemFromCacheSwallows(w, env, table, key) ==
  LET w1 == Logged(w, [svc |-> "dynamodbCache", cmd |-> "removeItemFromCache",
                       table |-> table, key |-> key])
      r == KeyValueCacheDelete(w1, env,
                               buildCacheKey(CACHE_PREFIX_KEY, table, key))
  IN IF r.thrown # None THEN Resolved(r.w, Some(FALSE)) ELSE r

\* removeItemFromCache(tableName, key)
removeItemFromCache(w, env, table, key) ==
  LET w1 == Logged(w, [svc |-> "dynamodbCache", cmd |-> "removeItemFromCache",
                       table |-> table, key |-> key])
      r == KeyValueCacheDelete(w1, env,
                               buildCacheKey(CACHE_PREFIX_KEY, table, key))
  IN IF r.thrown # None
     THEN Rejected(r.w, ApolloError(MessageOr(r.thrown[1], EvictDefaultMessage)))
     ELSE r

\* jest.spyOn(dynamodbCache, 'retrieveFromCache') of the getItem tests:
\* mockRejectedValueOnce(env.thrown) when env.cget, the method itself
\* otherwise
retrieveFromCacheMock(w, env, key) ==
  IF env.cget
  THEN Rejected(Logged(w, [svc |-> "dynamodbCache", cmd |-> "retrieveFromCache",
                           key |-> key]),
                env.thrown)
  ELSE retrieveFromCache(w, env, key)

\* getItem's catch clause with the default message whatever was thrown
GetItemErrorDefaultOnly(err) == ApolloError(GetItemDefaultMessage)

\* what getItem's catch clause rethrows
GetItemError(err) == ApolloError(MessageOr(err, GetItemDefaultMessage))

\* DynamoDBCacheImpl.getItem(getItemInput, ttl) once its call of
\* this.retrieveFromCache (the method, or the spy a test has put in its
\* place) has settled as cached
CacheGetItemAfter(cached, env, input, ttl) ==
  LET cacheKey == buildCacheKey(CACHE_PREFIX_KEY, input.TableName, input.Key)
      output == GetCommand(cached.w, env, input.TableName, input.Key)
      written == setInCache(output.w, env, cacheKey, output.ret[1], ttl)
  IN IF cached.thrown # None
     THEN Rejected(cached.w, GetItemError(cached.thrown[1]))
     ELSE IF cached.ret # None THEN Resolved(cached.w, cached.ret)
     ELSE IF output.thrown # None
     THEN Rejected(output.w, GetItemError(output.thrown[1]))
     ELSE IF output.ret = None
     THEN Rejected(output.w, GetItemError(ApolloError(NotFoundMessage)))
     ELSE IF ~Truthy(ttl) THEN Resolved(output.w, output.ret)
     ELSE IF written.thrown # None
     THEN Rejected(written.w, GetItemError(written.thrown[1]))
     ELSE Resolved(written.w, output.ret)

\* DynamoDBCacheImpl.getItem(getItemInput, ttl)
CacheGetItem(w, env, input, ttl) ==
  CacheGetItemAfter(
    retrieveFromCache(w, env,
                      buildCacheKey(CACHE_PREFIX_KEY, input.TableName, input.Key)),
    env, input, ttl)

-----------------------------------------------------------------------------
(* DynamoDBDataSource.ts: the table facade *)

\* getItem that sends the GetCommand itself instead of asking the cache
getItemBypassesCache(w, env, input, ttl) ==
  LET output == GetCommand(w, env, input.TableName, input.Key)
  IN IF output.thrown # None
     THEN Rejected(output.w, GetItemError(output.thrown[1]))
     ELSE IF output.ret = None
     THEN Rejected(output.w, GetItemError(ApolloError(NotFoundMessage)))
     ELSE Resolved(output.w, output.ret)

\* getItem that does not pass its ttl on
getItemDropsTtl(w, env, input, ttl) == CacheGetItem(w, env, input, None)

\* getItem that catches what the cache-through store throws and resolves
\* with undefined
getItemSwallows(w, env, input, ttl) ==
  LET r == CacheGetItem(w, env, input, ttl)
  IN IF r.thrown # None THEN Resolved(r.w, None) ELSE r

\* getItem that remembers a lookup that found nothing: it caches JSON's
\* null under the key before it rejects
getItemCachesMiss(w, env, input, ttl) ==
  LET r == CacheGetItem(w, env, input, ttl)
      cacheKey == buildCacheKey(CACHE_PREFIX_KEY, input.TableName, input.Key)
      noted == KeyValueCacheSet(r.w, env, cacheKey, "null", ttl[1])
  IN IF r.thrown = Some(ApolloError(NotFoundMessage)) /\ Truthy(ttl)
     THEN Rejected(noted.w, r.thrown[1])
     ELSE r

\* getItem that tries a second time when the first attempt rejected
getItemRetries(w, env, input, ttl) ==
  LET r == CacheGetItem(w, env, input, ttl)
  IN IF r.thrown # None THEN CacheGetItem(r.w, env, input, ttl) ELSE r

\* getItem(getItemInput, ttl)
getItem(w, env, input, ttl) == CacheGetItem(w, env, input, ttl)

\* cacheItems without the ttl in its guard
cacheItemsIgnoresTtl(w, env, items, ttl) ==
  IF Len(items) # 0
  THEN setItemsInCache(w, env,
                       buildItemsCacheMap(CACHE_PREFIX_KEY, tableName,
                                          tableKeySchema, items),
                       ttl)
  ELSE Resolved(w, None)

\* cacheItems that caches the first item only
cacheItemsFirstOnly(w, env, items, ttl) ==
  IF Len(items) # 0 /\ Truthy(ttl)
  THEN setItemsInCache(w, env,
                       buildItemsCacheMap(CACHE_PREFIX_KEY, tableName,
                                          tableKeySchema, <<items[1]>>),
                       ttl)
  ELSE Resolved(w, None)

\* cacheItems without the length of the items in its guard
cacheItemsIgnoresEmpty(w, env, items, ttl) ==
  IF Truthy(ttl)
  THEN setItemsInCache(w, env,
                       buildItemsCacheMap(CACHE_PREFIX_KEY, tableName,
                                          tableKeySchema, items),
                       ttl)
  ELSE Resolved(w, None)

\* cacheItems(items, ttl)
cacheItems(w, env, items, ttl) ==
  IF Len(items) # 0 /\ Truthy(ttl)
  THEN setItemsInCache(w, env,
                       buildItemsCacheMap(CACHE_PREFIX_KEY, tableName,
                                          tableKeySchema, items),
                       ttl)
  ELSE Resolved(w, None)

\* query(queryInput, ttl)
query(w, env, input, ttl) ==
  LET output == QueryCommand(w, env, input)
      items == output.ret.Items
      cached == cacheItems(output.w, env, items, ttl)
  IN IF output.thrown # None THEN output
     ELSE IF cached.thrown # None THEN Rejected(cached.w, cached.thrown[1])
     ELSE Resolved(cached.w, Some(items))

\* queryDetails that counts the items it returns instead of reading the
\* store's counts
queryDetailsCountsItems(w, env, input, ttl) ==
  LET output == QueryCommand(w, env, input)
      items == output.ret.Items
      details == [Count |-> Len(items),
                  ScannedCount |-> Len(items),
                  LastEvaluatedKey |-> output.ret.LastEvaluatedKey]
      cached == cacheItems(output.w, env, items, ttl)
  IN IF output.thrown # None THEN output
     ELSE IF cached.thrown # None THEN Rejected(cached.w, cached.thrown[1])
     ELSE Resolved(cached.w, Some([items |-> items, details |-> details]))

\* queryDetails(queryInput, ttl)
queryDetails(w, env, input, ttl) ==
  LET output == QueryCommand(w, env, input)
      items == output.ret.Items
      details == [Count |-> output.ret.Count,
                  ScannedCount |-> output.ret.ScannedCount,
                  LastEvaluatedKey |-> output.ret.LastEvaluatedKey]
      cached == cacheItems(output.w, env, items, ttl)
  IN IF output.thrown # None THEN output
     ELSE IF cached.thrown # None THEN Rejected(cached.w, cached.thrown[1])
     ELSE Resolved(cached.w, Some([items |-> items, details |-> details]))

\* scan(scanInput, ttl)
scan(w, env, input, ttl) ==
  LET output == ScanCommand(w, env, input)
      items == output.ret.Items
      cached == cacheItems(output.w, env, items, ttl)
  IN IF output.thrown # None THEN output
     ELSE IF cached.thrown # None THEN Rejected(cached.w, cached.thrown[1])
     ELSE Resolved(cached.w, Some(items))

\* scanDetails(scanInput, ttl)
scanDetails(w, env, input, ttl) ==
  LET output == ScanCommand(w, env, input)
      items == output.ret.Items
      details == [Count |-> output.ret.Count,
                  ScannedCount |-> output.ret.ScannedCount,
                  LastEvaluatedKey |-> output.ret.LastEvaluatedKey]
      cached == cacheItems(output.w, env, items, ttl)
  IN IF output.thrown # None THEN output
     ELSE IF cached.thrown # None THEN Rejected(cached.w, cached.thrown[1])
     ELSE Resolved(cached.w, Some([items |-> items, details |-> details]))

\* put without the write-through
putForgetsCache(w, env, item, ttl, cond) ==
  LET sent == PutCommand(w, env, tableName, item, cond)
  IN IF sent.thrown # None THEN sent
     ELSE Resolved(sent.w, Some(item))

\* put without the ttl guard
putIgnoresTtl(w, env, item, ttl, cond) ==
  LET sent == PutCommand(w, env, tableName, item, cond)
      key == buildKey(tableKeySchema, item)
      cacheKey == buildCacheKey(CACHE_PREFIX_KEY, tableName, key)
      written == setInCache(sent.w, env, cacheKey, item, ttl)
  IN IF sent.thrown # None THEN sent
     ELSE IF written.thrown # None THEN Rejected(written.w, written.thrown[1])
     ELSE Resolved(written.w, Some(item))

\* put that removes the item's entry from the cache when it has no ttl
putInvalidatesWithoutTtl(w, env, item, ttl, cond) ==
  LET sent == PutCommand(w, env, tableName, item, cond)
      key == buildKey(tableKeySchema, item)
      cacheKey == buildCacheKey(CACHE_PREFIX_KEY, tableName, key)
      written == setInCache(sent.w, env, cacheKey, item, ttl)
      removed == removeItemFromCache(sent.w, env, tableName, key)
  IN IF sent.thrown # None THEN sent
     ELSE IF ~Truthy(ttl) THEN Resolved(removed.w, Some(item))
     ELSE IF written.thrown # None THEN Rejected(written.w, written.thrown[1])
     ELSE Resolved(written.w, Some(item))

\* put that asks the cache for one second more than its ttl argument
putExtendsTtl(w, env, item, ttl, cond) ==
  LET sent == PutCommand(w, env, tableName, item, cond)
      key == buildKey(tableKeySchema, item)
      cacheKey == buildCacheKey(CACHE_PREFIX_KEY, tableName, key)
      written == setInCache(sent.w, env, cacheKey, item, Some(ttl[1] + 1))
  IN IF sent.thrown # None THEN sent
     ELSE IF ~Truthy(ttl) THEN Resolved(sent.w, Some(item))
     ELSE IF written.thrown # None THEN Rejected(written.w, written.thrown[1])
     ELSE Resolved(written.w, Some(item))

\* put that leaves the table alone when the cache already holds the item
putSkipsStoreOnHit(w, env, item, ttl, cond) ==
  LET key == buildKey(tableKeySchema, item)
      cacheKey == buildCacheKey(CACHE_PREFIX_KEY, tableName, key)
      cached == retrieveFromCache(w, env, cacheKey)
      sent == PutCommand(cached.w, env, tableName, item, cond)
      written == setInCache(sent.w, env, cacheKey, item, ttl)
  IN IF cached.ret = Some(item) THEN Resolved(cached.w, Some(item))
     ELSE IF sent.thrown # None THEN sent
     ELSE IF ~Truthy(ttl) THEN Resolved(sent.w, Some(item))
     ELSE IF written.thrown # None THEN Rejected(written.w, written.thrown[1])
     ELSE Resolved(written.w, Some(item))

\* put that catches a failed cache write and carries on
putSwallowsCacheFailure(w, env, item, ttl, cond) ==
  LET sent == PutCommand(w, env, tableName, item, cond)
      key == buildKey(tableKeySchema, item)
      cacheKey == buildCacheKey(CACHE_PREFIX_KEY, tableName, key)
      written == setInCache(sent.w, env, cacheKey, item, ttl)
  IN IF sent.thrown # None THEN sent
     ELSE IF ~Truthy(ttl) THEN Resolved(sent.w, Some(item))
     ELSE Resolved(written.w, Some(item))

\* put(item, ttl, conditionExpression)
put(w, env, item, ttl, cond) ==
  LET sent == PutCommand(w, env, tableName, item, cond)
      key == buildKey(tableKeySchema, item)
      cacheKey == buildCacheKey(CACHE_PREFIX_KEY, tableName, key)
      written == setInCache(sent.w, env, cacheKey, item, ttl)
  IN IF sent.thrown # None THEN sent
     ELSE IF ~Truthy(ttl) THEN Resolved(sent.w, Some(item))
     ELSE IF written.thrown # None THEN Rejected(written.w, written.thrown[1])
     ELSE Resolved(written.w, Some(item))

\* update that leaves an entry the cache already holds under the key as it
\* is
updateKeepsEntry(w, env, key, v, ttl, cond) ==
  LET output == UpdateCommand(w, env, tableName, key, v, cond)
      updated == output.ret
      cacheKey == buildCacheKey(CACHE_PREFIX_KEY, tableName, key)
      written == setInCache(output.w, env, cacheKey, updated[1], ttl)
  IN IF output.thrown # None THEN output
     ELSE IF ~(updated # None /\ Truthy(ttl)) THEN Resolved(output.w, updated)
     ELSE IF cacheKey \in DOMAIN output.w.cache THEN Resolved(output.w, updated)
     ELSE IF written.thrown # None THEN Rejected(written.w, written.thrown[1])
     ELSE Resolved(written.w, updated)

\* update that answers with what the cache holds under the key after its
\* write
updateReturnsCached(w, env, key, v, ttl, cond) ==
  LET output == UpdateCommand(w, env, tableName, key, v, cond)
      updated == output.ret
      cacheKey == buildCacheKey(CACHE_PREFIX_KEY, tableName, key)
      written == IF updated # None /\ Truthy(ttl)
                 THEN setInCache(output.w, env, cacheKey, updated[1], ttl)
                 ELSE Resolved(output.w, None)
      cached == retrieveFromCache(written.w, env, cacheKey)
  IN IF output.thrown # None THEN output
     ELSE IF written.thrown # None THEN Rejected(written.w, written.thrown[1])
     ELSE Resolved(cached.w, cached.ret)

\* update that caches whenever the store reports a record, ttl or not
updateIgnoresTtl(w, env, key, v, ttl, cond) ==
  LET output == UpdateCommand(w, env, tableName, key, v, cond)
      updated == output.ret
      cacheKey == buildCacheKey(CACHE_PREFIX_KEY, tableName, key)
      written == setInCache(output.w, env, cacheKey, updated[1], ttl)
  IN IF output.thrown # None THEN output
     ELSE IF updated = None THEN Resolved(output.w, updated)
     ELSE IF written.thrown # None THEN Rejected(written.w, written.thrown[1])
     ELSE Resolved(written.w, updated)

\* update(key, updateExpression, names, values, ttl, conditionExpression), for
\* the update expression 'SET #test = :test' with :test = v
update(w, env, key, v, ttl, cond) ==
  LET output == UpdateCommand(w, env, tableName, key, v, cond)
      updated == output.ret
      cacheKey == buildCacheKey(CACHE_PREFIX_KEY, tableName, key)
      written == setInCache(output.w, env, cacheKey, updated[1], ttl)
  IN IF output.thrown # None THEN output
     ELSE IF ~(updated # None /\ Truthy(ttl)) THEN Resolved(output.w, updated)
     ELSE IF written.thrown # None THEN Rejected(written.w, written.thrown[1])
     ELSE Resolved(written.w, updated)

\* updateConditional(key, updateExpression, conditionExpression, names, values,
\* ttl)
updateConditional(w, env, key, v, cond, ttl) ==
  LET output == UpdateCommand(w, env, tableName, key, v, cond)
      updated == output.ret
      cacheKey == buildCacheKey(CACHE_PREFIX_KEY, tableName, key)
      written == setInCache(output.w, env, cacheKey, updated[1], ttl)
  IN IF output.thrown # None THEN output
     ELSE IF ~(updated # None /\ Truthy(ttl)) THEN Resolved(output.w, updated)
     ELSE IF written.thrown # None THEN Rejected(written.w, written.thrown[1])
     ELSE Resolved(written.w, updated)

\* delete that evicts the cache entry even when the store rejected the
\* DeleteCommand
deleteEvictsAnyway(w, env, key) ==
  LET sent == DeleteCommand(w, env, tableName, key)
      removed == removeItemFromCache(sent.w, env, tableName, key)
  IN IF sent.thrown # None THEN Rejected(removed.w, sent.thrown[1])
     ELSE IF removed.thrown # None THEN removed
     ELSE Resolved(removed.w, None)

\* delete that leaves the cache alone
deleteKeepsCache(w, env, key) == DeleteCommand(w, env, tableName, key)

\* delete that evicts the cache entry before it deletes from the table
deleteEvictsFirst(w, env, key) ==
  LET removed == removeItemFromCache(w, env, tableName, key)
      sent == DeleteCommand(removed.w, env, tableName, key)
  IN IF removed.thrown # None THEN removed
     ELSE IF sent.thrown # None THEN sent
     ELSE Resolved(sent.w, None)

\* delete(key)
delete(w, env, key) ==
  LET sent == DeleteCommand(w, env, tableName, key)
      removed == removeItemFromCache(sent.w, env, tableName, key)
  IN IF sent.thrown # None THEN sent
     ELSE IF removed.thrown # None THEN removed
     ELSE Resolved(removed.w, None)

-----------------------------------------------------------------------------
(* What the services may do during one call *)

Range(f) == {f[x] : x \in DOMAIN f}

\* some of the items of a table, each once, in an order of the store's
ItemSeqs(tbl) ==
  {items \in UNION {[1..n -> Range(tbl)] : n \in 0..Cardinality(DOMAIN tbl)} :
     \A i, j \in 1..Len(items) : i # j => items[i] # items[j]}

\* the pages that carry one of the item sequences: a last page, or a page
\* that stopped at its last item after scanning one item more than it
\* returns
PagesOf(itemSeqs) ==
  {[Items |-> items, Count |-> Len(items), ScannedCount |-> Len(items),
    LastEvaluatedKey |-> None] : items \in itemSeqs}
  \cup
  {[Items |-> items, Count |-> Len(items), ScannedCount |-> Len(items) + 1,
    LastEvaluatedKey |-> Some(buildKey(tableKeySchema, items[Len(items)]))] :
     items \in itemSeqs \ {<<>>}}

\* the pages a Scan of the table may answer with
ScanPages(tbl) == PagesOf(ItemSeqs(tbl))

\* the pages a Query for 'id = :id' may answer with
QueryPages(tbl, id) ==
  PagesOf({<<>>} \cup {<<tbl[i]>> : i \in DOMAIN tbl \cap {id}})

\* the other table holds one item
otherItems == [i \in {"a"} |-> [id |-> "a", test |-> "y"]]

Error == [name |-> "Error", message |-> "Error"]

\* a call during which no service fails
Calm ==
  [store |-> FALSE, cget |-> FALSE, cdel |-> FALSE, cset |-> {},
   thrown |-> Error, attrs |-> TRUE, other |-> otherItems,
   page |-> [Items |-> <<>>, Count |-> 0, ScannedCount |-> 0,
             LastEvaluatedKey |-> None]]

\* the faults of a call that reads the store and may write one cache entry:
\* none, the store rejects, or the cache rejects the set
WriteFaults(rejections) ==
  {Calm}
  \cup {[Calm EXCEPT !.store = TRUE, !.thrown = t] : t \in rejections}
  \cup {[Calm EXCEPT !.cset = CacheKeys, !.thrown = t] : t \in rejections}

\* the faults of getItem: those, each with or without a rejected cache get
GetItemFaults ==
  {[f EXCEPT !.cget = g] : f \in WriteFaults(Rejections), g \in BOOLEAN}

\* the faults of a call that reads a page and may write several entries:
\* none, the store rejects, or the cache rejects the sets of some keys
ReadFaults ==
  {Calm, [Calm EXCEPT !.store = TRUE]}
  \cup {[Calm EXCEPT !.cset = ks] :
          ks \in SUBSET {buildCacheKey(CACHE_PREFIX_KEY, tableName, k) : k \in Keys}}

\* the faults of delete: none, the store rejects, the cache rejects the
\* delete
DeleteFaults ==
  {Calm}
  \cup {[Calm EXCEPT !.store = TRUE, !.thrown = t] : t \in Rejections}
  \cup {[Calm EXCEPT !.cdel = TRUE, !.thrown = t] : t \in Rejections}

PutConditions == {None, Some("attribute_not_exists(id)")}

UpdateConditions == {None, Some("#test <> :test")}

-----------------------------------------------------------------------------
(* The state machine.  store is the facade's table, cache the key-value    *)
(* cache.  The caller issues one call of the facade at a time: call is     *)
(* Idle, or the call that has ended and whose outcome the caller has not   *)
(* taken yet: its arguments, the table and the cache it started from, the  *)
(* calls it issued on the services and what it returned or threw.          *)

Idle == [op |-> "idle"]

World == [store |-> store, cache |-> cache, calls |-> <<>>]

\* a call of the facade ended as r
Ended(op, args, r) ==
  /\ store' = r.w.store
  /\ cache' = r.w.cache
  /\ call' = [op |-> op, args |-> args,
              before |-> [store |-> store, cache |-> cache],
              thrown |-> r.thrown, ret |-> r.ret, calls |-> r.w.calls]

Init ==
  /\ store = EmptyTable
  /\ cache = EmptyCache
  /\ call = Idle

GetItem ==
  /\ call = Idle
  /\ \E table \in TableNames, key \in Keys, ttl \in TtlArgs, env \in GetItemFaults :
      LET input == [TableName |-> table, Key |-> key]
      IN Ended("getItem", [input |-> input, ttl |-> ttl],
               getItem(World, env, input, ttl))

Query ==
  /\ call = Idle
  /\ \E table \in TableNames, id \in Ids, ttl \in TtlArgs, faults \in ReadFaults :
      \E page \in QueryPages(IF table = tableName THEN store ELSE otherItems, id) :
        LET input == [TableName |-> table, id |-> id]
        IN Ended("query", [input |-> input, ttl |-> ttl],
                 query(World, [faults EXCEPT !.page = page], input, ttl))

QueryDetails ==
  /\ call = Idle
  /\ \E table \in TableNames, id \in Ids, ttl \in TtlArgs, faults \in ReadFaults :
      \E page \in QueryPages(IF table = tableName THEN store ELSE otherItems, id) :
        LET input == [TableName |-> table, id |-> id]
        IN Ended("queryDetails", [input |-> input, ttl |-> ttl],
                 queryDetails(World, [faults EXCEPT !.page = page], input, ttl))

Scan ==
  /\ call = Idle
  /\ \E table \in TableNames, ttl \in TtlArgs, faults \in ReadFaults :
      \E page \in ScanPages(IF table = tableName THEN store ELSE otherItems) :
        LET input == [TableName |-> table]
        IN Ended("scan", [input |-> input, ttl |-> ttl],
                 scan(World, [faults EXCEPT !.page = page], input, ttl))

ScanDetails ==
  /\ call = Idle
  /\ \E table \in TableNames, ttl \in TtlArgs, faults \in ReadFaults :
      \E page \in ScanPages(IF table = tableName THEN store ELSE otherItems) :
        LET input == [TableName |-> table]
        IN Ended("scanDetails", [input |-> input, ttl |-> ttl],
                 scanDetails(World, [faults EXCEPT !.page = page], input, ttl))

Put ==
  /\ call = Idle
  /\ \E item \in Items, ttl \in TtlArgs, cond \in PutConditions,
       env \in WriteFaults({Error}) :
      Ended("put", [item |-> item, ttl |-> ttl, cond |-> cond],
            put(World, env, item, ttl, cond))

Update ==
  /\ call = Idle
  /\ \E key \in Keys, v \in Vals, ttl \in TtlArgs, cond \in UpdateConditions,
       faults \in WriteFaults({Error}), attrs \in BOOLEAN :
      Ended("update", [key |-> key, v |-> v, ttl |-> ttl, cond |-> cond],
            update(World, [faults EXCEPT !.attrs = attrs], key, v, ttl, cond))

UpdateConditional ==
  /\ call = Idle
  /\ \E key \in Keys, v \in Vals, ttl \in TtlArgs,
       cond \in UpdateConditions \ {None},
       faults \in WriteFaults({Error}), attrs \in BOOLEAN :
      Ended("updateConditional",
            [key |-> key, v |-> v, ttl |-> ttl, cond |-> cond],
            updateConditional(World, [faults EXCEPT !.attrs = attrs],
                              key, v, cond, ttl))

Delete ==
  /\ call = Idle
  /\ \E key \in Keys, env \in DeleteFaults :
      Ended("delete", [key |-> key], delete(World, env, key))

\* the caller takes the outcome of the call
Return ==
  /\ call # Idle
  /\ call' = Idle
  /\ UNCHANGED <<store, cache>>

\* a second passes: every entry has one second less to live, and the entries
\* with none left are gone
Tick ==
  /\ call = Idle
  /\ DOMAIN cache # {}
  /\ cache' = [k \in {x \in DOMAIN cache : cache[x].rem > 1} |->
                 [cache[k] EXCEPT !.rem = @ - 1]]
  /\ UNCHANGED <<store, call>>

\* another client of the key-value cache leaves a string that is not JSON
\* under a key of the facade's table
CorruptEntry ==
  \E key \in Keys, ttl \in 1..MaxTtl :
    /\ call = Idle
    /\ cache' = CacheStore(cache, buildCacheKey(CACHE_PREFIX_KEY, tableName, key),
                           [value |-> Corrupt, rem |-> ttl])
    /\ UNCHANGED <<store, call>>

Next ==
  \/ GetItem
  \/ Query
  \/ QueryDetails
  \/ Scan
  \/ ScanDetails
  \/ Put
  \/ Update
  \/ UpdateConditional
  \/ Delete
  \/ Return
  \/ Tick
  \/ CorruptEntry

Spec == Init /\ [][Next]_vars

TypeOK ==
  /\ store \in Tables
  /\ DOMAIN cache \subseteq CacheKeys
  /\ \A k \in DOMAIN cache : cache[k].rem \in 1..MaxTtl

-----------------------------------------------------------------------------
(* The key builders of utils.ts called on their own: a caller derives the  *)
(* cache keys of records of a table with a partition key, or a partition   *)
(* and a range key, whose values are any strings, the delimiters "-" and   *)
(* ":" included.                                                            *)

\* the longest batch of records handed to buildItemsCacheMap
MaxItems == 2

\* values of the key attributes (AttributeType "S")
KeyValues == {"a", "b", "a-timestamp-a", "a:b"}

\* KeySchema of the table test_composite: id HASH, timestamp RANGE
compositeKeySchema == <<"id", "timestamp">>

KeySchemas == {tableKeySchema, compositeKeySchema}

\* records with the attributes of both key schemas and one more
Records == [id : KeyValues, timestamp : KeyValues, test : Vals]

RecordSeqs == UNION {[1..n -> Records] : n \in 0..MaxItems}

\* buildCacheKey(prefix, table, buildKey(keySchema, record)) for two records
\* of one table
BuildCacheKeys ==
  /\ call = Idle
  /\ \E table \in TableNames, keySchema \in KeySchemas, r1 \in Records,
       r2 \in Records :
      Ended("buildCacheKey",
            [cachePrefix |-> CACHE_PREFIX_KEY, table |-> table,
             keySchema |-> keySchema, records |-> <<r1, r2>>],
            Resolved(World,
                     Some(<<buildCacheKey(CACHE_PREFIX_KEY, table,
                                          buildKey(keySchema, r1)),
                            buildCacheKey(CACHE_PREFIX_KEY, table,
                                          buildKey(keySchema, r2))>>)))

\* buildItemsCacheMap(prefix, table, keySchema, items)
BuildItemsCacheMap ==
  /\ call = Idle
  /\ \E table \in TableNames, keySchema \in KeySchemas, items \in RecordSeqs :
      Ended("buildItemsCacheMap",
            [cachePrefix |-> CACHE_PREFIX_KEY, table |-> table,
             keySchema |-> keySchema, items |-> items],
            Resolved(World,
                     Some(buildItemsCacheMap(CACHE_PREFIX_KEY, table,
                                             keySchema, items))))

\* a primary key as a caller may write it: its attributes in schema order or
\* the other way round
CallerKeys(keySchema, r) ==
  LET key == buildKey(keySchema, r)
  IN {key, [i \in 1..Len(key) |-> key[Len(key) + 1 - i]]}

\* the cache key put derives for the item it wrote
putCacheKey(table, keySchema, item) ==
  buildCacheKey(CACHE_PREFIX_KEY, table, buildKey(keySchema, item))

\* the cache keys cacheItems derives for the records a query or scan
\* returned
cacheItemsKeys(table, keySchema, items) ==
  MapKeys(buildItemsCacheMap(CACHE_PREFIX_KEY, table, keySchema, items))

\* the cache key update and updateConditional derive from their key argument
updateCacheKey(table, key) == buildCacheKey(CACHE_PREFIX_KEY, table, key)

\* the cache key removeItemFromCache(this.tableName, key) derives for delete
deleteCacheKey(table, key) == buildCacheKey(CACHE_PREFIX_KEY, table, key)

\* the cache key getItem derives from its lookup
getItemCacheKey(input) ==
  buildCacheKey(CACHE_PREFIX_KEY, input.TableName, input.Key)

\* the cache keys the operations of one facade (table, keySchema) derive for
\* one record, the caller writing the key of update, delete and of the
\* lookup as `key`
DeriveCacheKeys ==
  /\ call = Idle
  /\ \E table \in TableNames, keySchema \in KeySchemas, r \in Records :
       \E key \in CallerKeys(keySchema, r) :
         Ended("cacheKeys",
               [table |-> table, keySchema |-> keySchema, record |-> r,
                key |-> key],
               Resolved(World,
                        Some([put |-> putCacheKey(table, keySchema, r),
                              cacheItems |-> cacheItemsKeys(table, keySchema, <<r>>),
                              update |-> updateCacheKey(table, key),
                              delete |-> deleteCacheKey(table, key),
                              getItem |-> getItemCacheKey(
                                            [TableName |-> table, Key |-> key])])))

\* buildItemsCacheMap(prefix, table, keySchema, items) on a batch of three
\* records
BuildItemsCacheMapOfThree ==
  /\ call = Idle
  /\ \E table \in TableNames, keySchema \in KeySchemas, r1 \in Records,
       r2 \in Records, r3 \in Records :
      Ended("buildItemsCacheMap",
            [cachePrefix |-> CACHE_PREFIX_KEY, table |-> table,
             keySchema |-> keySchema, items |-> <<r1, r2, r3>>],
            Resolved(World,
                     Some(buildItemsCacheMap(CACHE_PREFIX_KEY, table,
                                             keySchema, <<r1, r2, r3>>))))

KeyNext ==
  \/ BuildCacheKeys
  \/ BuildItemsCacheMap
  \/ BuildItemsCacheMapOfThree
  \/ DeriveCacheKeys
  \/ Return

KeySpec == Init /\ [][KeyNext]_vars

-----------------------------------------------------------------------------
(* DynamoDBCacheImpl called on its own (the facade's dynamodbCache is a    *)
(* public field): a caller reads, writes and evicts entries of the         *)
(* facade's table, and the key-value cache may reject any of its calls.    *)

\* the cache keys of the facade's table
OwnKeys == {buildCacheKey(CACHE_PREFIX_KEY, tableName, k) : k \in Keys}

\* the key-value cache answers, or rejects the get, the delete and the sets
\* of some keys
CacheFaults ==
  {Calm}
  \cup {[Calm EXCEPT !.cget = TRUE, !.cdel = TRUE, !.cset = ks, !.thrown = t] :
          ks \in SUBSET OwnKeys \ {{}}, t \in Rejections}

\* the mappings built from batches of items of the facade's table
CacheMaps ==
  {buildItemsCacheMap(CACHE_PREFIX_KEY, tableName, tableKeySchema, items) :
     items \in UNION {[1..n -> Items] : n \in 0..MaxItems}}

RetrieveFromCache ==
  /\ call = Idle
  /\ \E key \in OwnKeys, env \in CacheFaults :
      Ended("retrieveFromCache", [key |-> key],
            retrieveFromCache(World, env, key))

SetInCache ==
  /\ call = Idle
  /\ \E key \in OwnKeys, item \in Items, ttl \in TtlArgs, env \in CacheFaults :
      Ended("setInCache", [key |-> key, item |-> item, ttl |-> ttl],
            setInCache(World, env, key, item, ttl))

SetItemsInCache ==
  /\ call = Idle
  /\ \E items \in CacheMaps, ttl \in TtlArgs, env \in CacheFaults :
      Ended("setItemsInCache", [items |-> items, ttl |-> ttl],
            setItemsInCache(World, env, items, ttl))

RemoveItemFromCache ==
  /\ call = Idle
  /\ \E table \in TableNames, key \in Keys, env \in CacheFaults :
      Ended("removeItemFromCache",
            [table |-> table, key |-> key, rejection |-> env.thrown],
            removeItemFromCache(World, env, table, key))

\* getItem of the cache-through store called directly, its retrieveFromCache
\* spied on as the tests do
CacheGetItemCalled ==
  /\ call = Idle
  /\ \E table \in TableNames, key \in Keys, ttl \in TtlArgs,
       env \in GetItemFaults :
      LET input == [TableName |-> table, Key |-> key]
      IN Ended("DynamoDBCacheImpl.getItem",
               [input |-> input, ttl |-> ttl, rejection |-> env.thrown,
                mocked |-> env.cget],
               CacheGetItemAfter(
                 retrieveFromCacheMock(
                   World, env,
                   buildCacheKey(CACHE_PREFIX_KEY, table, key)),
                 env, input, ttl))

CacheNext ==
  \/ CacheGetItemCalled
  \/ RetrieveFromCache
  \/ SetInCache
  \/ SetItemsInCache
  \/ RemoveItemFromCache
  \/ Return
  \/ CorruptEntry

CacheSpec == Init /\ [][CacheNext]_vars

-----------------------------------------------------------------------------
(* The facade called by one caller at a time, who gives every put, update  *)
(* and updateConditional a ttl, while the key-value cache rejects nothing  *)
(* and nobody else writes to it.                                           *)

\* the call that ends in this step had a ttl if it is a put, update or
\* updateConditional, none of its calls on the key-value cache was rejected,
\* and its UpdateCommand, sent with ReturnValues: 'ALL_NEW', answered with
\* the Attributes if it resolved
Sequential ==
  /\ \A i \in 1..Len(call'.calls) :
       call'.calls[i].svc = "cache" => call'.calls[i].ok
  /\ call'.op \in {"put", "update", "updateConditional"} =>
       /\ Truthy(call'.args.ttl)
       /\ call'.thrown = None => call'.ret # None

SeqGetItem == GetItem /\ Sequential

SeqQuery == Query /\ Sequential

SeqQueryDetails == QueryDetails /\ Sequential

SeqScan == Scan /\ Sequential

SeqScanDetails == ScanDetails /\ Sequential

SeqPut == Put /\ Sequential

SeqUpdate == Update /\ Sequential

SeqUpdateConditional == UpdateConditional /\ Sequential

SeqDelete == Delete /\ Sequential

SeqNext ==
  \/ SeqGetItem
  \/ SeqQuery
  \/ SeqQueryDetails
  \/ SeqScan
  \/ SeqScanDetails
  \/ SeqPut
  \/ SeqUpdate
  \/ SeqUpdateConditional
  \/ SeqDelete
  \/ Return
  \/ Tick

SeqSpec == Init /\ [][SeqNext]_vars

-----------------------------------------------------------------------------
(* The facade under a clock.  Here call carries one more field, written,   *)
(* whether a call has ended or none is in progress: for every cache key    *)
(* the facade has written, the string written, the ttl argument of the     *)
(* facade call that wrote it and the seconds that have passed since.       *)

\* the notes after the calls of the log of a facade call with argument ttl:
\* a resolved set with a positive ttl is noted, a resolved set with another
\* ttl or a resolved delete removes the note
RECURSIVE Noted(_, _, _)
Noted(notes, calls, ttl) ==
  IF calls = <<>> THEN notes
  ELSE LET c == Head(calls)
           next == IF c.svc = "cache" /\ c.ok /\ c.cmd = "set"
                   THEN (IF c.ttl > 0
                         THEN CacheStore(notes, c.key,
                                         [value |-> c.value, ttl |-> ttl,
                                          age |-> 0])
                         ELSE CacheRemove(notes, c.key))
                   ELSE IF c.svc = "cache" /\ c.ok /\ c.cmd = "delete"
                   THEN CacheRemove(notes, c.key)
                   ELSE notes
       IN Noted(next, Tail(calls), ttl)

\* a call of the facade with argument ttl ended as r
TimedEnded(op, args, ttl, r) ==
  /\ store' = r.w.store
  /\ cache' = r.w.cache
  /\ call' = [op |-> op, args |-> args,
              before |-> [store |-> store, cache |-> cache,
                          written |-> call.written],
              thrown |-> r.thrown, ret |-> r.ret, calls |-> r.w.calls,
              written |-> Noted(call.written, r.w.calls, ttl)]

TimedInit ==
  /\ store = EmptyTable
  /\ cache = EmptyCache
  /\ call = [op |-> "idle", written |-> EmptyCache]

\* no call is in progress
TimedIdle == call.op = "idle"

\* the faults of a timed call: none, or the key-value cache rejects the get
TimedFaults == {Calm, [Calm EXCEPT !.cget = TRUE]}

TimedGetItem ==
  /\ TimedIdle
  /\ \E table \in TableNames, key \in Keys, ttl \in TtlArgs, env \in TimedFaults :
       LET input == [TableName |-> table, Key |-> key]
       IN TimedEnded("getItem", [input |-> input, ttl |-> ttl], ttl,
                     getItem(World, env, input, ttl))

TimedQuery ==
  /\ TimedIdle
  /\ \E table \in TableNames, id \in Ids, ttl \in TtlArgs :
       \E page \in QueryPages(IF table = tableName THEN store ELSE otherItems, id) :
         LET input == [TableName |-> table, id |-> id]
         IN TimedEnded("query", [input |-> input, ttl |-> ttl], ttl,
                       query(World, [Calm EXCEPT !.page = page], input, ttl))

TimedPut ==
  /\ TimedIdle
  /\ \E item \in Items, ttl \in TtlArgs :
       TimedEnded("put", [item |-> item, ttl |-> ttl, cond |-> None], ttl,
                  put(World, Calm, item, ttl, None))

TimedUpdate ==
  /\ TimedIdle
  /\ \E key \in Keys, v \in Vals, ttl \in TtlArgs :
       TimedEnded("update", [key |-> key, v |-> v, ttl |-> ttl, cond |-> None],
                  ttl, update(World, Calm, key, v, ttl, None))

TimedDelete ==
  /\ TimedIdle
  /\ \E key \in Keys :
       TimedEnded("delete", [key |-> key], None, delete(World, Calm, key))

\* a second passes: as Tick, and every note is a second older (a note is
\* kept when its time is up, and ages no further)
TimedTick ==
  /\ TimedIdle
  /\ cache' = [k \in {x \in DOMAIN cache : cache[x].rem > 1} |->
                 [cache[k] EXCEPT !.rem = @ - 1]]
  /\ call' = [op |-> "idle",
              written |-> [k \in DOMAIN call.written |->
                             [call.written[k] EXCEPT
                                !.age = IF @ < call.written[k].ttl[1]
                                        THEN @ + 1 ELSE @]]]
  /\ UNCHANGED store

\* the caller takes the outcome of the call
TimedReturn ==
  /\ ~TimedIdle
  /\ call' = [op |-> "idle", written |-> call.written]
  /\ UNCHANGED <<store, cache>>

TimedNext ==
  \/ TimedGetItem
  \/ TimedQuery
  \/ TimedPut
  \/ TimedUpdate
  \/ TimedDelete
  \/ TimedTick
  \/ TimedReturn

TimedSpec == TimedInit /\ [][TimedNext]_vars

-----------------------------------------------------------------------------
(* Calls of one facade that overlap.  A call runs up to its next await in  *)
(* one step; between two awaits the calls of other callers may run.  Here  *)
(* call keeps, for each caller, the call it is in and the await it has     *)
(* reached, whether two calls have overlapped so far, and the records the  *)
(* table has held.                                                         *)

\* the callers
Procs == {"p", "q"}

\* the primary key the callers work on, and the items with that key
RaceKey == <<<<"id", "a">>>>

RaceItems == {item \in Items : buildKey(tableKeySchema, item) = RaceKey}

\* the ttl arguments of the callers: every call has one
RaceTtls == {Some(n) : n \in 1..MaxTtl}

\* a caller that is in no call
Resting ==
  [op |-> "idle", pc |-> "done", key |-> RaceKey, arg |-> "", ttl |-> None,
   got |-> None]

\* put(item, ttl), from where it stands to its next await: the PutCommand,
\* then setInCache
putStep(w, l) ==
  LET sent == PutCommand(w, Calm, tableName, l.arg, None)
      key == buildKey(tableKeySchema, l.arg)
      cacheKey == buildCacheKey(CACHE_PREFIX_KEY, tableName, key)
      written == setInCache(w, Calm, cacheKey, l.arg, l.ttl)
  IN IF l.pc = "send"
     THEN [w |-> sent.w,
           l |-> IF sent.thrown # None \/ ~Truthy(l.ttl) THEN Resting
                 ELSE [l EXCEPT !.pc = "cache"]]
     ELSE [w |-> written.w, l |-> Resting]

\* update(key, ..., ttl), from where it stands to its next await: the
\* UpdateCommand, then setInCache of the Attributes it answered with
updateStep(w, l) ==
  LET output == UpdateCommand(w, Calm, tableName, l.key, l.arg, None)
      cacheKey == buildCacheKey(CACHE_PREFIX_KEY, tableName, l.key)
      written == setInCache(w, Calm, cacheKey, l.got[1], l.ttl)
  IN IF l.pc = "send"
     THEN [w |-> output.w,
           l |-> IF output.thrown # None \/ ~(output.ret # None /\ Truthy(l.ttl))
                 THEN Resting
                 ELSE [l EXCEPT !.pc = "cache", !.got = output.ret]]
     ELSE [w |-> written.w, l |-> Resting]

\* delete that leaves the cache alone
deleteStepKeepsEntry(w, l) ==
  LET sent == DeleteCommand(w, Calm, tableName, l.key)
  IN IF l.pc = "send"
     THEN [w |-> sent.w,
           l |-> IF sent.thrown # None THEN Resting ELSE [l EXCEPT !.pc = "cache"]]
     ELSE [w |-> w, l |-> Resting]

\* delete(key), from where it stands to its next await: the DeleteCommand,
\* then removeItemFromCache
deleteStep(w, l) ==
  LET sent == DeleteCommand(w, Calm, tableName, l.key)
      removed == removeItemFromCache(w, Calm, tableName, l.key)
  IN IF l.pc = "send"
     THEN [w |-> sent.w,
           l |-> IF sent.thrown # None THEN Resting ELSE [l EXCEPT !.pc = "cache"]]
     ELSE [w |-> removed.w, l |-> Resting]

\* getItem(getItemInput, ttl), from where it stands to its next await:
\* retrieveFromCache, then the GetCommand, then setInCache of the Item
getItemStep(w, l) ==
  LET cacheKey == buildCacheKey(CACHE_PREFIX_KEY, tableName, l.key)
      cached == retrieveFromCache(w, Calm, cacheKey)
      output == GetCommand(w, Calm, tableName, l.key)
      written == setInCache(w, Calm, cacheKey, l.got[1], l.ttl)
  IN IF l.pc = "read"
     THEN [w |-> cached.w,
           l |-> IF cached.ret # None THEN Resting ELSE [l EXCEPT !.pc = "send"]]
     ELSE IF l.pc = "send"
     THEN [w |-> output.w,
           l |-> IF output.thrown # None \/ output.ret = None \/ ~Truthy(l.ttl)
                 THEN Resting
                 ELSE [l EXCEPT !.pc = "cache", !.got = output.ret]]
     ELSE [w |-> written.w, l |-> Resting]

\* caller p has run its call up to the next await, or to its end
Taken(p, r) ==
  /\ store' = r.w.store
  /\ cache' = r.w.cache
  /\ call' = [call EXCEPT
                !.procs[p] = r.l,
                !.overlapped = @ \/ \E q \in Procs \ {p} : call.procs[q].op # "idle",
                !.seen = @ \cup {r.w.store[i] : i \in DOMAIN r.w.store}]

RaceInit ==
  /\ store = EmptyTable
  /\ cache = EmptyCache
  /\ call = [op |-> "race", procs |-> [p \in Procs |-> Resting],
             overlapped |-> FALSE, seen |-> {}]

RacePut ==
  \E p \in Procs, item \in RaceItems, ttl \in RaceTtls :
    /\ call.procs[p].op = "idle"
    /\ Taken(p, putStep(World, [op |-> "put", pc |-> "send", key |-> RaceKey,
                                arg |-> item, ttl |-> ttl, got |-> None]))

RaceUpdate ==
  \E p \in Procs, v \in Vals, ttl \in RaceTtls :
    /\ call.procs[p].op = "idle"
    /\ Taken(p, updateStep(World, [op |-> "update", pc |-> "send", key |-> RaceKey,
                                   arg |-> v, ttl |-> ttl, got |-> None]))

RaceDelete ==
  \E p \in Procs :
    /\ call.procs[p].op = "idle"
    /\ Taken(p, deleteStep(World, [op |-> "delete", pc |-> "send", key |-> RaceKey,
                                   arg |-> "", ttl |-> None, got |-> None]))

RaceGetItem ==
  \E p \in Procs, ttl \in RaceTtls :
    /\ call.procs[p].op = "idle"
    /\ Taken(p, getItemStep(World, [op |-> "getItem", pc |-> "read", key |-> RaceKey,
                                    arg |-> "", ttl |-> ttl, got |-> None]))

\* the promise a call awaits has settled: the call runs on
RaceResume ==
  \E p \in Procs :
    LET l == call.procs[p]
    IN /\ l.op # "idle"
       /\ Taken(p, IF l.op = "put" THEN putStep(World, l)
                   ELSE IF l.op = "update" THEN updateStep(World, l)
                   ELSE IF l.op = "delete" THEN deleteStep(World, l)
                   ELSE getItemStep(World, l))

\* a second passes
RaceTick ==
  /\ cache' = [k \in {x \in DOMAIN cache : cache[x].rem > 1} |->
                 [cache[k] EXCEPT !.rem = @ - 1]]
  /\ DOMAIN cache # {}
  /\ UNCHANGED <<store, call>>

RaceNext ==
  \/ RacePut
  \/ RaceUpdate
  \/ RaceDelete
  \/ RaceGetItem
  \/ RaceResume
  \/ RaceTick

RaceSpec == RaceInit /\ [][RaceNext]_vars

-----------------------------------------------------------------------------
(* Reading the call that has ended *)

IsCall(ops) == call # Idle /\ call.op \in ops

\* the calls of the log on one service, in order
CallsOn(svc) == SelectSeq(call.calls, LAMBDA c : c.svc = svc)

\* the calls of the log on one service with one command, in order
CallsOf(svc, cmd) == SelectSeq(call.calls, LAMBDA c : c.svc = svc /\ c.cmd = cmd)

\* where in the log the only call of that service and command stands
IndexOf(svc, cmd) ==
  CHOOSE i \in 1..Len(call.calls) :
    call.calls[i].svc = svc /\ call.calls[i].cmd = cmd

\* the call wrote nothing to the cache: no setInCache, no setItemsInCache, no
\* set on the key-value cache
NoCacheWrite ==
  /\ CallsOf("dynamodbCache", "setInCache") = <<>>
  /\ CallsOf("dynamodbCache", "setItemsInCache") = <<>>
  /\ CallsOf("cache", "set") = <<>>

\* the call did not touch the cache at all
NoCacheCall == CallsOn("dynamodbCache") = <<>> /\ CallsOn("cache") = <<>>

\* exactly one cache write: one setInCache(key, item, ttl) that issued one
\* set(key, JSON.stringify(item), { ttl })
OneCacheWrite(key, item, ttl) ==
  /\ CallsOf("dynamodbCache", "setItemsInCache") = <<>>
  /\ CallsOf("dynamodbCache", "setInCache")
       = <<[svc |-> "dynamodbCache", cmd |-> "setInCache", key |-> key,
            item |-> item, ttl |-> ttl]>>
  /\ Len(CallsOf("cache", "set")) = 1
  /\ LET set == CallsOf("cache", "set")[1]
     IN set.key = key /\ set.value = Stringify(item) /\ set.ttl = ttl

\* no call on a service rejected
NoRejection == \A i \in 1..Len(call.calls) :
                 "ok" \in DOMAIN call.calls[i] => call.calls[i].ok

\* the cache key getItem derives from its lookup
LookupKey == buildCacheKey(CACHE_PREFIX_KEY, call.args.input.TableName,
                           call.args.input.Key)

\* the key-value cache rejected no get of the call
ReadResolved ==
  \A i \in 1..Len(CallsOf("cache", "get")) : CallsOf("cache", "get")[i].ok

\* getItem on a cache hit: the cache held a parseable entry under the key
\* derived from the lookup when the call started, and the read of it
\* resolved
GetItemHit ==
  /\ IsCall({"getItem"})
  /\ LookupKey \in DOMAIN call.before.cache
  /\ Parseable(call.before.cache[LookupKey].value)
  /\ ReadResolved

\* getItem on a cache miss: the read resolved and the cache held nothing
\* under the key
GetItemMiss ==
  /\ IsCall({"getItem"})
  /\ LookupKey \notin DOMAIN call.before.cache
  /\ ReadResolved

\* getItem whose cache read failed: the key-value cache rejected the get,
\* or what it held under the key does not parse
GetItemReadFailure ==
  /\ IsCall({"getItem"})
  /\ \/ (CallsOf("cache", "get") # <<>> /\ ~CallsOf("cache", "get")[1].ok)
     \/ /\ LookupKey \in DOMAIN call.before.cache
        /\ ~Parseable(call.before.cache[LookupKey].value)

\* what the looked-up table held under the looked-up key when getItem
\* started
StoredItem ==
  TableGet(IF call.args.input.TableName = tableName THEN call.before.store
           ELSE otherItems,
           KeyId(call.args.input.Key))

-----------------------------------------------------------------------------
(* Properties of the operations *)

\* C1: getItem on a cache hit (the cache holds a parseable entry under the
\* cache key derived from the lookup's table name and key, and the read of
\* it resolves) returns the cached record, issues no lookup on the backing
\* store and no cache write, whether ttl is set or not; store and cache are
\* left as they were.
C1_CacheHit ==
  GetItemHit =>
    /\ call.thrown = None
    /\ call.ret = Some(Parse(call.before.cache[LookupKey].value))
    /\ CallsOn("store") = <<>>
    /\ NoCacheWrite
    /\ store = call.before.store
    /\ cache = call.before.cache

\* a cache hit of a getItem called with a ttl, the cached record differing
\* from the one the store holds
C1_Witness ==
  /\ GetItemHit
  /\ Truthy(call.args.ttl)
  /\ StoredItem # None
  /\ call.ret # StoredItem

\* C2: getItem on a cache miss where the store has the record and no call
\* is rejected: the backing store is looked up exactly once, with the
\* lookup's table and key, and its record is returned; with a ttl (one that
\* `if (ttl)` takes) exactly one cache entry is written after the lookup,
\* under the cache key derived from the lookup, with the store's record as
\* value and that ttl; without one no cache write is issued.
C2_MissPopulates ==
  (GetItemMiss /\ StoredItem # None /\ NoRejection) =>
    /\ Len(CallsOn("store")) = 1
    /\ CallsOn("store")[1].cmd = "Get"
    /\ CallsOn("store")[1].table = call.args.input.TableName
    /\ CallsOn("store")[1].key = call.args.input.Key
    /\ call.thrown = None
    /\ call.ret = StoredItem
    /\ Truthy(call.args.ttl) =>
         /\ OneCacheWrite(LookupKey, StoredItem[1], call.args.ttl[1])
         /\ IndexOf("store", "Get") < IndexOf("cache", "set")
    /\ ~Truthy(call.args.ttl) => NoCacheWrite

\* a miss that populated the cache: the entry is there with the ttl
C2_Witness ==
  /\ GetItemMiss
  /\ StoredItem # None
  /\ NoRejection
  /\ call.args.ttl = Some(MaxTtl)
  /\ LookupKey \in DOMAIN cache
  /\ cache[LookupKey] = [value |-> Stringify(call.ret[1]), rem |-> MaxTtl]

\* C3: getItem where neither the cache nor the backing store has the record
\* fails with the not-found error, which no other failure of getItem
\* produces; it never resolves, and no cache write is attempted.
C3_NotFound ==
  /\ (GetItemMiss /\ StoredItem = None /\ NoRejection) =>
       /\ call.thrown = Some(ApolloError(NotFoundMessage))
       /\ call.ret = None
       /\ NoCacheWrite
       /\ cache = call.before.cache
  /\ (IsCall({"getItem"}) /\ call.thrown = Some(ApolloError(NotFoundMessage))) =>
       /\ CallsOf("store", "Get") # <<>>
       /\ CallsOf("store", "Get")[1].ok
       /\ CallsOf("store", "Get")[1].ret = None
  /\ (IsCall({"getItem"}) /\ call.thrown = None) => call.ret # None

\* a lookup with a ttl that missed the cache and the store
C3_Witness ==
  /\ GetItemMiss
  /\ StoredItem = None
  /\ NoRejection
  /\ Truthy(call.args.ttl)
  /\ call.thrown # None

\* C4: a failure while reading the cache during getItem (the key-value
\* cache rejects the get, or the value it holds does not parse) never fails
\* getItem: the backing store is looked up, and when it has the record and
\* no later call is rejected, getItem returns the store's record.
C4_ReadFailureIsMiss ==
  GetItemReadFailure =>
    /\ Len(CallsOf("store", "Get")) = 1
    /\ CallsOf("store", "Get")[1].key = call.args.input.Key
    /\ (CallsOf("store", "Get")[1].ok /\ StoredItem # None
        /\ \A i \in 1..Len(CallsOf("cache", "set")) : CallsOf("cache", "set")[i].ok)
         => (call.thrown = None /\ call.ret = StoredItem)
    /\ call.thrown # None =>
         \/ ~CallsOf("store", "Get")[1].ok
         \/ StoredItem = None
         \/ \E i \in 1..Len(CallsOf("cache", "set")) : ~CallsOf("cache", "set")[i].ok

\* a getItem that found a string that is not JSON in the cache and returned
\* the store's record
C4_Witness ==
  /\ GetItemReadFailure
  /\ CallsOf("cache", "get")[1].ok
  /\ CallsOf("cache", "get")[1].ret = Some(Corrupt)
  /\ call.ret = StoredItem
  /\ StoredItem # None

\* a getItem whose cache read was rejected and that returned the store's
\* record
C4_WitnessRejected ==
  /\ GetItemReadFailure
  /\ ~CallsOf("cache", "get")[1].ok
  /\ call.ret = StoredItem
  /\ StoredItem # None

\* the cache key of an item of the facade's table
ItemKey(item) ==
  buildCacheKey(CACHE_PREFIX_KEY, tableName, buildKey(tableKeySchema, item))

\* the calls of the log on the store that resolved
StoreResolved == CallsOn("store") # <<>> /\ CallsOn("store")[1].ok

\* C5: write-through then read-through.  After put(item, ttl) with a
\* positive ttl has completed successfully, the cache holds the item,
\* serialized, under the item's key with ttl seconds to live; and as long as
\* the cache holds that entry, getItem for the item's primary key on the
\* facade's table returns a record equal to the item without a lookup on the
\* backing store, whatever its own ttl (a getItem starts when the facade is
\* idle: the caller has taken the put's outcome, which leaves table and
\* cache as the put left them).
C5_WriteThenRead ==
  /\ (IsCall({"put"}) /\ call.thrown = None /\ call.args.ttl # None
      /\ call.args.ttl[1] > 0) =>
       /\ ItemKey(call.args.item) \in DOMAIN cache
       /\ cache[ItemKey(call.args.item)]
            = [value |-> Stringify(call.args.item), rem |-> call.args.ttl[1]]
  /\ call = Idle =>
       \A item \in Items :
         (/\ ItemKey(item) \in DOMAIN cache
          /\ cache[ItemKey(item)].value = Stringify(item)) =>
           \A ttl \in TtlArgs :
             LET r == getItem(World, Calm,
                              [TableName |-> tableName,
                               Key |-> buildKey(tableKeySchema, item)], ttl)
             IN /\ r.thrown = None
                /\ r.ret = Some(item)
                /\ \A i \in 1..Len(r.w.calls) : r.w.calls[i].svc # "store"

\* a put with a ttl has completed, over an item the table held with
\* another value, and a getItem for its key would now be a cache hit
C5_Witness ==
  /\ IsCall({"put"})
  /\ call.thrown = None
  /\ call.args.ttl = Some(1)
  /\ call.args.item.id \in DOMAIN call.before.store
  /\ call.before.store[call.args.item.id] # call.args.item
  /\ cache[ItemKey(call.args.item)].value = Stringify(call.args.item)

\* C6: put(item, ttl).  The store is sent one PutCommand for the item on
\* the facade's table.  Without a ttl (or with one `if (ttl)` does not
\* take) put issues no cache call at all; with a ttl it issues exactly one
\* cache write, whose key is the cache key derived from the item's
\* primary-key attributes and the facade's table name, whose value is the
\* item and whose TTL is ttl.  When no call is rejected put returns the item
\* it was given; when the store rejects the command put issues no cache
\* call.
C6_Put ==
  IsCall({"put"}) =>
    /\ Len(CallsOn("store")) = 1
    /\ CallsOn("store")[1].cmd = "Put"
    /\ CallsOn("store")[1].table = tableName
    /\ CallsOn("store")[1].item = call.args.item
    /\ ~StoreResolved => (NoCacheCall /\ call.thrown # None)
    /\ (StoreResolved /\ ~Truthy(call.args.ttl)) =>
         (NoCacheCall /\ call.thrown = None /\ call.ret = Some(call.args.item))
    /\ (StoreResolved /\ Truthy(call.args.ttl)) =>
         /\ OneCacheWrite("sup:t:id-" \o call.args.item.id, call.args.item,
                          call.args.ttl[1])
         /\ Len(CallsOn("dynamodbCache")) = 1
         /\ Len(CallsOn("cache")) = 1
         /\ NoRejection => (call.thrown = None /\ call.ret = Some(call.args.item))

\* a put with the largest ttl that wrote the entry over an older one
C6_Witness ==
  /\ IsCall({"put"})
  /\ call.args.ttl = Some(MaxTtl)
  /\ call.thrown = None
  /\ ItemKey(call.args.item) \in DOMAIN call.before.cache
  /\ call.before.cache[ItemKey(call.args.item)] # cache[ItemKey(call.args.item)]

\* the cache key of the key argument of update, updateConditional, delete
ArgKey == buildCacheKey(CACHE_PREFIX_KEY, tableName, call.args.key)

\* C7: update and updateConditional.  If the store reports no updated
\* record or there is no ttl (none that `if (ttl)` takes), no cache call
\* occurs; otherwise exactly one cache write occurs, under the cache key
\* derived from the key argument, with the post-update record the store
\* reported as value and ttl as TTL.  When no call is rejected the
\* operation returns the store's reported post-update record; when the
\* store rejects the command no cache call occurs.
C7_Update ==
  IsCall({"update", "updateConditional"}) =>
    /\ Len(CallsOn("store")) = 1
    /\ CallsOn("store")[1].cmd = "Update"
    /\ CallsOn("store")[1].table = tableName
    /\ CallsOn("store")[1].key = call.args.key
    /\ ~StoreResolved => (NoCacheCall /\ call.thrown # None)
    /\ StoreResolved =>
         LET updated == CallsOn("store")[1].ret
         IN /\ (updated = None \/ ~Truthy(call.args.ttl)) =>
                 (NoCacheCall /\ call.thrown = None /\ call.ret = updated)
            /\ (updated # None /\ Truthy(call.args.ttl)) =>
                 /\ OneCacheWrite(ArgKey, updated[1], call.args.ttl[1])
                 /\ Len(CallsOn("dynamodbCache")) = 1
                 /\ Len(CallsOn("cache")) = 1
                 /\ NoRejection => (call.thrown = None /\ call.ret = updated)

\* an updateConditional with the largest ttl whose condition held and that
\* replaced the cached record by the updated one
C7_Witness ==
  /\ IsCall({"updateConditional"})
  /\ call.args.ttl = Some(MaxTtl)
  /\ call.thrown = None
  /\ ArgKey \in DOMAIN call.before.cache
  /\ call.before.cache[ArgKey].value # cache[ArgKey].value
  /\ cache[ArgKey].value = Stringify(call.ret[1])

\* an update whose store response carried no record
C7_WitnessNoRecord ==
  /\ IsCall({"update"})
  /\ Truthy(call.args.ttl)
  /\ StoreResolved
  /\ CallsOn("store")[1].ret = None

\* C8: delete(key).  The store is sent one DeleteCommand for the key on the
\* facade's table; when it resolves, cache removal is invoked with (facade
\* table name, key) exactly once, after the DeleteCommand, and deletes the
\* derived cache key from the key-value cache once; when the store rejects
\* the command no cache removal is issued.  delete takes no ttl.
C8_Delete ==
  IsCall({"delete"}) =>
    /\ Len(CallsOn("store")) = 1
    /\ call.calls[1] = [svc |-> "store", cmd |-> "Delete", table |-> tableName,
                        key |-> call.args.key, ok |-> StoreResolved,
                        ret |-> None]
    /\ ~StoreResolved => (NoCacheCall /\ call.thrown # None)
    /\ StoreResolved =>
         /\ CallsOn("dynamodbCache")
              = <<[svc |-> "dynamodbCache", cmd |-> "removeItemFromCache",
                   table |-> tableName, key |-> call.args.key]>>
         /\ Len(CallsOn("cache")) = 1
         /\ CallsOn("cache")[1].cmd = "delete"
         /\ CallsOn("cache")[1].key = "sup:t:id-" \o KeyId(call.args.key)
         /\ IndexOf("store", "Delete")
              < IndexOf("dynamodbCache", "removeItemFromCache")
         /\ NoRejection => (call.thrown = None /\ ArgKey \notin DOMAIN cache)
    /\ DOMAIN call.args = {"key"}

\* a delete of a record that the table and the cache held
C8_Witness ==
  /\ IsCall({"delete"})
  /\ call.thrown = None
  /\ KeyId(call.args.key) \in DOMAIN call.before.store
  /\ ArgKey \in DOMAIN call.before.cache
  /\ ArgKey \notin DOMAIN cache
  /\ KeyId(call.args.key) \notin DOMAIN store

ReadOps == {"query", "queryDetails", "scan", "scanDetails"}

\* the page the store answered a query or scan with
Page == CallsOn("store")[1].ret

\* the records a query or scan returned
ReturnedItems ==
  IF call.op \in {"query", "scan"} THEN call.ret[1] ELSE call.ret[1].items

\* C9: query, queryDetails, scan and scanDetails without a ttl (none that
\* `if (ttl)` takes) never trigger a cache call, whatever the store
\* returns, and return exactly the records the store reported, in the
\* store's order; the cache is left as it was.
C9_ReadWithoutTtl ==
  (IsCall(ReadOps) /\ ~Truthy(call.args.ttl)) =>
    /\ NoCacheCall
    /\ cache = call.before.cache
    /\ Len(CallsOn("store")) = 1
    /\ StoreResolved =>
         (call.thrown = None /\ call.ret # None /\ ReturnedItems = Page.Items)
    /\ ~StoreResolved => call.thrown # None

\* a scan without a ttl that returned two records, none of them cached
C9_Witness ==
  /\ IsCall({"scan"})
  /\ call.args.ttl = None
  /\ call.thrown = None
  /\ Len(call.ret[1]) = 2
  /\ cache = EmptyCache

\* C10: query, queryDetails, scan and scanDetails with a ttl and a
\* non-empty result trigger exactly one bulk cache-population call, whose
\* mapping is buildItemsCacheMap(prefix, facade table name, facade key
\* schema, returned records), holding every returned record under its own
\* cache key, and whose ttl is the ttl argument; when no call is rejected
\* the operation returns the records the store reported.
C10_ReadPopulates ==
  (IsCall(ReadOps) /\ Truthy(call.args.ttl) /\ StoreResolved
   /\ Page.Items # <<>>) =>
    /\ CallsOf("dynamodbCache", "setItemsInCache")
         = <<[svc |-> "dynamodbCache", cmd |-> "setItemsInCache",
              items |-> buildItemsCacheMap(CACHE_PREFIX_KEY, tableName,
                                           tableKeySchema, Page.Items),
              ttl |-> call.args.ttl[1]]>>
    /\ LET map == CallsOf("dynamodbCache", "setItemsInCache")[1].items
       IN /\ Len(map) = Len(Page.Items)
          /\ \A i \in 1..Len(Page.Items) :
               /\ MapHas(map, "sup:t:id-" \o Page.Items[i].id)
               /\ MapGet(map, "sup:t:id-" \o Page.Items[i].id) = Page.Items[i]
    /\ NoRejection =>
         (call.thrown = None /\ call.ret # None /\ ReturnedItems = Page.Items)

\* a scanDetails with the largest ttl that returned two records and cached
\* both
C10_Witness ==
  /\ IsCall({"scanDetails"})
  /\ call.args.ttl = Some(MaxTtl)
  /\ call.thrown = None
  /\ Len(call.ret[1].items) = 2
  /\ call.before.cache = EmptyCache
  /\ \A i \in 1..2 :
       cache[ItemKey(call.ret[1].items[i])]
         = [value |-> Stringify(call.ret[1].items[i]), rem |-> MaxTtl]


\* C11: query, queryDetails, scan and scanDetails with a ttl and an empty
\* result from the store issue no bulk cache-population call (no cache call
\* of any kind), leave the cache as it was and return an empty item list.
C11_EmptyResult ==
  (IsCall(ReadOps) /\ Truthy(call.args.ttl) /\ StoreResolved
   /\ Page.Items = <<>>) =>
    /\ CallsOf("dynamodbCache", "setItemsInCache") = <<>>
    /\ NoCacheCall
    /\ cache = call.before.cache
    /\ call.thrown = None
    /\ call.ret # None
    /\ ReturnedItems = <<>>

\* a queryDetails with the largest ttl whose page was empty
C11_Witness ==
  /\ IsCall({"queryDetails"})
  /\ call.args.ttl = Some(MaxTtl)
  /\ StoreResolved
  /\ Page.Items = <<>>
  /\ call.ret[1].items = <<>>


\* two records agree on every attribute of the key schema
SameKey(keySchema, r1, r2) ==
  \A i \in 1..Len(keySchema) : r1[keySchema[i]] = r2[keySchema[i]]

\* C12: cache keys are collision-free within a table: for a fixed prefix,
\* table name and key schema (partition-only or partition plus range), two
\* records that differ in at least one primary-key attribute value derive
\* different cache keys, whatever the values, "-" and ":" in them included.
C12_CollisionFree ==
  (IsCall({"buildCacheKey"})
   /\ ~SameKey(call.args.keySchema, call.args.records[1], call.args.records[2]))
    => call.ret[1][1] # call.ret[1][2]


\* C13: two records with identical primary-key attribute values on the same
\* table derive the identical cache key, whatever their other attributes
\* (buildCacheKey(prefix, tableName, buildKey(schema, record)) reads the
\* prefix, the table name and the key attributes and nothing else).
C13_KeyOfKeyAttributesOnly ==
  (IsCall({"buildCacheKey"})
   /\ SameKey(call.args.keySchema, call.args.records[1], call.args.records[2]))
    => call.ret[1][1] = call.ret[1][2]

\* two records of a partition-only table that share the id and differ in
\* both other attributes got the same key
C13_Witness ==
  /\ IsCall({"buildCacheKey"})
  /\ call.args.keySchema = tableKeySchema
  /\ call.args.records[1].id = call.args.records[2].id
  /\ call.args.records[1].test # call.args.records[2].test
  /\ call.args.records[1].timestamp # call.args.records[2].timestamp
  /\ call.ret[1][1] = call.ret[1][2]

\* C14: the cache key is prefix + tableName + ":" + the key fragments joined
\* by "-", each fragment attributeName + "-" + attributeValue, the partition
\* attribute's before the range attribute's; for a partition-only key
\* {id: v} it is prefix + tableName + ":id-" + v.
C14_KeyForm ==
  IsCall({"buildCacheKey"}) =>
    \A i \in 1..2 :
      LET r == call.args.records[i]
          head == call.args.cachePrefix \o call.args.table \o ":"
      IN call.ret[1][i] =
           IF call.args.keySchema = <<"id">>
           THEN head \o "id-" \o r.id
           ELSE head \o "id-" \o r.id \o "-" \o "timestamp-" \o r.timestamp

\* the keys of a record of a composite-key table and of one with delimiters
\* in its values
C14_Witness ==
  /\ IsCall({"buildCacheKey"})
  /\ call.args.keySchema = compositeKeySchema
  /\ call.args.table = otherTable
  /\ call.ret[1] = <<"sup:u:id-a-timestamp-b", "sup:u:id-a:b-timestamp-a-timestamp-a">>

\* the primary keys of the items are pairwise distinct
DistinctKeys(keySchema, items) ==
  \A i, j \in 1..Len(items) :
    i # j => ~SameKey(keySchema, items[i], items[j])

\* C15: buildItemsCacheMap over an empty record sequence returns an empty
\* mapping, and over a sequence of N records with pairwise distinct primary
\* keys returns exactly N entries, each mapping the record's derived cache
\* key to that record.
C15_MapOfDistinctKeys ==
  IsCall({"buildItemsCacheMap"}) =>
    LET items == call.args.items
        map == call.ret[1]
        keyOf(r) == buildCacheKey(call.args.cachePrefix, call.args.table,
                                  buildKey(call.args.keySchema, r))
    IN /\ items = <<>> => map = <<>>
       /\ DistinctKeys(call.args.keySchema, items) =>
            /\ Len(map) = Len(items)
            /\ \A i \in 1..Len(items) :
                 MapHas(map, keyOf(items[i]))
                   /\ MapGet(map, keyOf(items[i])) = items[i]


\* C16: retrieveFromCache never throws: it returns the deserialized record
\* when the key-value cache's get returns a parseable value, and undefined
\* when the key is missing, when get rejects, or when the stored value does
\* not parse.  It issues one get, for its key, and changes nothing.
C16_RetrieveNeverThrows ==
  IsCall({"retrieveFromCache"}) =>
    LET key == call.args.key
        held == call.before.cache
    IN /\ call.thrown = None
       /\ Len(CallsOn("cache")) = 1
       /\ CallsOn("cache")[1].cmd = "get"
       /\ CallsOn("cache")[1].key = key
       /\ cache = held
       /\ ~CallsOn("cache")[1].ok => call.ret = None
       /\ (CallsOn("cache")[1].ok /\ key \notin DOMAIN held) => call.ret = None
       /\ (CallsOn("cache")[1].ok /\ key \in DOMAIN held) =>
            /\ held[key].value = Corrupt => call.ret = None
            /\ \A item \in Items :
                 held[key].value = Stringify(item) => call.ret = Some(item)

\* a retrieveFromCache that found a string that is not JSON under its key
C16_Witness ==
  /\ IsCall({"retrieveFromCache"})
  /\ CallsOn("cache")[1].ok
  /\ CallsOn("cache")[1].ret = Some(Corrupt)
  /\ call.ret = None

\* a retrieveFromCache that returned the record another call had cached
C16_WitnessHit ==
  /\ IsCall({"retrieveFromCache"})
  /\ call.ret = Some([id |-> "a", test |-> "y"])

\* a retrieveFromCache whose get was rejected
C16_WitnessRejected ==
  /\ IsCall({"retrieveFromCache"})
  /\ ~CallsOn("cache")[1].ok
  /\ call.args.key \in DOMAIN cache
  /\ call.ret = None


\* C17: removeItemFromCache(tableName, key) issues exactly one delete on the
\* key-value cache, for the cache key derived from (tableName, key), and
\* returns whether an entry was there and was removed; if the delete
\* rejects, removeItemFromCache rejects with an ApolloError carrying the
\* rejection's message, or the fixed default message when it has none, and
\* the cache is as it was.
C17_Remove ==
  IsCall({"removeItemFromCache"}) =>
    LET key == "sup:" \o call.args.table \o ":id-" \o KeyId(call.args.key)
    IN /\ Len(CallsOn("cache")) = 1
       /\ CallsOn("cache")[1].cmd = "delete"
       /\ CallsOn("cache")[1].key = key
       /\ CallsOn("cache")[1].ok =>
            /\ call.thrown = None
            /\ call.ret = Some(key \in DOMAIN call.before.cache)
            /\ key \notin DOMAIN cache
            /\ \A k \in DOMAIN call.before.cache \ {key} :
                 k \in DOMAIN cache /\ cache[k] = call.before.cache[k]
       /\ ~CallsOn("cache")[1].ok =>
            /\ call.thrown =
                 Some(ApolloError(
                        IF call.args.rejection.message # ""
                        THEN call.args.rejection.message
                        ELSE "An error occurred trying to evict the item from the cache"))
            /\ cache = call.before.cache

\* a removeItemFromCache that removed one of two entries and returned true
C17_Witness ==
  /\ IsCall({"removeItemFromCache"})
  /\ call.ret = Some(TRUE)
  /\ Cardinality(DOMAIN call.before.cache) = 2
  /\ Cardinality(DOMAIN cache) = 1

\* a removeItemFromCache that found nothing to remove
C17_WitnessAbsent ==
  /\ IsCall({"removeItemFromCache"})
  /\ call.ret = Some(FALSE)
  /\ cache # EmptyCache

\* a removeItemFromCache whose delete was rejected without a message
C17_WitnessDefaultMessage ==
  /\ IsCall({"removeItemFromCache"})
  /\ call.args.rejection.message = ""
  /\ call.thrown # None
  /\ call.thrown[1].message = EvictDefaultMessage

\* the TTL setInCache and setItemsInCache write with
TtlOrDefault(ttl) == IF ttl = None THEN TTL_SEC ELSE ttl[1]

\* C18: setInCache(cacheKey, record, ttl) issues exactly one set on the
\* key-value cache with key cacheKey, value the serialized record and TTL
\* ttl; when ttl is omitted the default TTL is used.
C18_SetInCache ==
  IsCall({"setInCache"}) =>
    /\ Len(CallsOn("cache")) = 1
    /\ CallsOn("cache")[1].cmd = "set"
    /\ CallsOn("cache")[1].key = call.args.key
    /\ CallsOn("cache")[1].value = Stringify(call.args.item)
    /\ CallsOn("cache")[1].ttl = TtlOrDefault(call.args.ttl)
    /\ (CallsOn("cache")[1].ok /\ TtlOrDefault(call.args.ttl) > 0) =>
         cache[call.args.key] = [value |-> Stringify(call.args.item),
                                 rem |-> TtlOrDefault(call.args.ttl)]

\* a setInCache without a ttl that replaced an entry
C18_Witness ==
  /\ IsCall({"setInCache"})
  /\ call.args.ttl = None
  /\ call.thrown = None
  /\ call.args.key \in DOMAIN call.before.cache
  /\ call.before.cache[call.args.key].value # Stringify(call.args.item)
  /\ cache[call.args.key].rem = TTL_SEC

\* a setInCache with a ttl of zero
C18_WitnessZero ==
  /\ IsCall({"setInCache"})
  /\ call.args.ttl = Some(0)
  /\ CallsOn("cache")[1].ok

\* C19: setItemsInCache(mapping, ttl) calls setInCache exactly once per
\* entry of the mapping (as many calls as the mapping has keys), each with
\* that entry's cache key and record and with the same ttl; when ttl is
\* omitted every entry is written with the default TTL.
C19_SetItemsInCache ==
  IsCall({"setItemsInCache"}) =>
    LET map == call.args.items
        sets == CallsOf("dynamodbCache", "setInCache")
    IN /\ Len(sets) = Cardinality(MapKeys(map))
       /\ Len(CallsOf("cache", "set")) = Len(sets)
       /\ \A i \in 1..Len(map) :
            /\ Cardinality({j \in 1..Len(sets) : sets[j].key = map[i][1]}) = 1
            /\ \A j \in 1..Len(sets) :
                 sets[j].key = map[i][1] =>
                   /\ sets[j].item = map[i][2]
                   /\ sets[j].ttl = TtlOrDefault(call.args.ttl)

\* a setItemsInCache of two entries without a ttl
C19_Witness ==
  /\ IsCall({"setItemsInCache"})
  /\ Len(call.args.items) = 2
  /\ call.args.ttl = None
  /\ call.thrown = None
  /\ \A i \in 1..2 : cache[call.args.items[i][1]].rem = TTL_SEC

\* a setItemsInCache of two entries with a ttl, the first of which the
\* key-value cache rejected
C19_WitnessRejected ==
  /\ IsCall({"setItemsInCache"})
  /\ Len(call.args.items) = 2
  /\ call.args.ttl = Some(MaxTtl)
  /\ call.thrown # None
  /\ ~CallsOf("cache", "set")[1].ok
  /\ CallsOf("cache", "set")[2].ok


\* the key-value cache rejected a set or a delete of the call
CacheWriteFailed ==
  \E i \in 1..Len(call.calls) :
    /\ call.calls[i].svc = "cache"
    /\ call.calls[i].cmd \in {"set", "delete"}
    /\ ~call.calls[i].ok

\* C20: a cache write or cache delete that fails during put, update,
\* updateConditional, query, scan (or their Details variants) or delete is
\* surfaced to the caller as an error, after the call on the backing store
\* has completed successfully, and the store's mutation is not rolled back:
\* after the failed operation the table holds the item put, the record as
\* updated, or no record under the deleted key, and a read has left the
\* table as it was.
C20_CacheFailureAfterStore ==
  (IsCall({"put", "update", "updateConditional", "delete"} \cup ReadOps)
   /\ CacheWriteFailed) =>
    /\ call.thrown # None
    /\ call.ret = None
    /\ Len(CallsOn("store")) = 1
    /\ call.calls[1].svc = "store"
    /\ call.calls[1].ok
    /\ call.op = "put" =>
         /\ call.args.item.id \in DOMAIN store
         /\ store[call.args.item.id] = call.args.item
    /\ call.op \in {"update", "updateConditional"} =>
         /\ KeyId(call.args.key) \in DOMAIN store
         /\ store[KeyId(call.args.key)] = call.calls[1].ret[1]
         /\ store[KeyId(call.args.key)].test = call.args.v
    /\ call.op = "delete" => KeyId(call.args.key) \notin DOMAIN store
    /\ call.op \in ReadOps => store = call.before.store

\* a put that failed on its cache write and left a new item in the table
C20_Witness ==
  /\ IsCall({"put"})
  /\ CacheWriteFailed
  /\ call.thrown # None
  /\ call.args.item.id \notin DOMAIN call.before.store
  /\ store[call.args.item.id] = call.args.item
  /\ cache = call.before.cache

\* a delete that failed on the eviction: the record is gone from the table,
\* its entry is still in the cache
C20_WitnessDelete ==
  /\ IsCall({"delete"})
  /\ CacheWriteFailed
  /\ call.thrown # None
  /\ KeyId(call.args.key) \in DOMAIN call.before.store
  /\ KeyId(call.args.key) \notin DOMAIN store
  /\ ArgKey \in DOMAIN cache

\* a scan that failed on the second of its two cache writes
C20_WitnessScan ==
  /\ IsCall({"scan"})
  /\ call.thrown # None
  /\ Len(CallsOf("cache", "set")) = 2
  /\ CallsOf("cache", "set")[1].ok
  /\ ~CallsOf("cache", "set")[2].ok


\* the operations of the table facade
FacadeOps ==
  ReadOps \cup {"getItem", "put", "update", "updateConditional", "delete"}

\* C21, as stated: every invocation of every facade operation, getItem
\* included, executes its backing-store call, whatever the ttl and whatever
\* the cache holds.
C21_StoreAlways ==
  IsCall(FacadeOps) => Len(CallsOn("store")) >= 1

\* C21, amended: every invocation of query, queryDetails, scan,
\* scanDetails, put, update, updateConditional and delete issues its
\* backing-store command, exactly once, whatever the ttl and whatever the
\* cache holds; getItem issues its lookup exactly once unless the cache read
\* is a hit, and then not at all.
C21_StoreUnlessHit ==
  /\ IsCall(FacadeOps \ {"getItem"}) => Len(CallsOn("store")) = 1
  /\ IsCall({"getItem"}) =>
       Len(CallsOn("store")) = IF GetItemHit THEN 0 ELSE 1

\* a getItem with a ttl answered from the cache while the table holds
\* another record under the key
C21_Witness ==
  /\ GetItemHit
  /\ call.args.ttl = Some(MaxTtl)
  /\ CallsOn("store") = <<>>
  /\ StoredItem # None
  /\ call.ret # StoredItem


\* the operations whose cache population the ttl gates
PopulatingOps == ReadOps \cup {"put", "update", "updateConditional"}

\* C22: cache population is gated by a positive ttl: put, update,
\* updateConditional, query, queryDetails, scan and scanDetails issue a
\* cache write only when the ttl argument is a positive number; with the
\* ttl unset, zero or negative they issue no cache write.
C22_PositiveTtlGate ==
  (IsCall(PopulatingOps)
   /\ ~(call.args.ttl # None /\ call.args.ttl[1] > 0)) => NoCacheWrite


\* the world with nothing in the cache
Uncached == [World EXCEPT !.cache = EmptyCache]

\* the two outcomes return or throw the same
SameOutcome(r1, r2) == r1.ret = r2.ret /\ r1.thrown = r2.thrown

\* C23: no mutating operation returns cache-derived data: put returns the
\* item it sent to the store, update and updateConditional return the
\* record the store reported for the call; none of them reads the cache;
\* and whatever a call of one of them can start from, its outcome is the
\* one it would have had with the cache empty.
C23_StoreReported ==
  /\ IsCall({"put", "update", "updateConditional"}) =>
       /\ CallsOf("cache", "get") = <<>>
       /\ CallsOf("dynamodbCache", "retrieveFromCache") = <<>>
       /\ call.thrown = None =>
            /\ StoreResolved
            /\ call.ret = IF call.op = "put" THEN Some(call.args.item)
                          ELSE CallsOn("store")[1].ret
  /\ call = Idle =>
       /\ \A item \in Items, ttl \in TtlArgs, cond \in PutConditions,
            env \in WriteFaults({Error}) :
            SameOutcome(put(World, env, item, ttl, cond),
                        put(Uncached, env, item, ttl, cond))
       /\ \A key \in Keys, v \in Vals, ttl \in TtlArgs,
            cond \in UpdateConditions, env \in WriteFaults({Error}) :
            /\ SameOutcome(update(World, env, key, v, ttl, cond),
                           update(Uncached, env, key, v, ttl, cond))
            /\ cond # None =>
                 SameOutcome(updateConditional(World, env, key, v, cond, ttl),
                             updateConditional(Uncached, env, key, v, cond, ttl))

\* an update without a ttl that returned the updated record while the cache
\* held, and still holds, the record as it was before
C23_Witness ==
  /\ IsCall({"update"})
  /\ call.args.ttl = None
  /\ call.thrown = None
  /\ call.ret # None
  /\ ArgKey \in DOMAIN cache
  /\ Parseable(cache[ArgKey].value)
  /\ Parse(cache[ArgKey].value) # call.ret[1]
  /\ Parse(cache[ArgKey].value).id = call.ret[1].id


\* the records of one resolved call on the store: what a Get, an Update, a
\* Query or a Scan returned, what a Put was given
RecordsOf(c) ==
  IF ~c.ok THEN {}
  ELSE IF c.cmd \in {"Get", "Update"}
  THEN (IF c.ret = None THEN {} ELSE {c.ret[1]})
  ELSE IF c.cmd \in {"Query", "Scan"} THEN Range(c.ret.Items)
  ELSE IF c.cmd = "Put" THEN {c.item}
  ELSE {}

\* the records the store returned or accepted during the call
StoreRecords == UNION {RecordsOf(CallsOn("store")[i]) :
                         i \in 1..Len(CallsOn("store"))}

\* the cache keys whose entry the call created or changed
WrittenKeys ==
  {k \in DOMAIN cache :
     k \notin DOMAIN call.before.cache \/ cache[k] # call.before.cache[k]}

\* C24: negative lookups are never cached.  Every cache entry a facade
\* operation creates or changes holds, serialized, a record the backing
\* store returned during the operation (getItem miss, query, scan, update)
\* or a record passed to a put the store accepted; an operation whose
\* lookup found nothing (a getItem for a record the store does not hold, a
\* query or scan with an empty page, an update the store reports no record
\* for) writes nothing to the cache; so every entry of the cache is a
\* serialized record, or the unreadable string another client left.
C24_NoNegativeCaching ==
  /\ IsCall(FacadeOps) =>
       /\ \A k \in WrittenKeys :
            \E r \in StoreRecords : cache[k].value = Stringify(r)
       /\ (StoreResolved /\ StoreRecords = {}) =>
            (NoCacheWrite /\ WrittenKeys = {}
             /\ DOMAIN cache \subseteq DOMAIN call.before.cache)
  /\ \A k \in DOMAIN cache :
       cache[k].value = Corrupt \/ Parseable(cache[k].value)

\* a getItem with a ttl for a record the store does not hold, after which
\* the cache, which holds another entry, has none under the looked-up key
C24_Witness ==
  /\ GetItemMiss
  /\ call.args.ttl = Some(MaxTtl)
  /\ StoreResolved
  /\ StoreRecords = {}
  /\ call.thrown = Some(ApolloError(NotFoundMessage))
  /\ LookupKey \notin DOMAIN cache
  /\ cache # EmptyCache


\* C25: invalidate on delete.  After delete(key) has completed
\* successfully (the caller issues one call at a time), the cache holds no
\* entry under the key's cache key and the table no record under the key,
\* so a getItem for the key on the facade's table that follows rejects
\* with the not-found error and returns nothing, whatever its ttl and
\* whether or not its cache read fails.
C25_InvalidateOnDelete ==
  (IsCall({"delete"}) /\ call.thrown = None) =>
    /\ ArgKey \notin DOMAIN cache
    /\ KeyId(call.args.key) \notin DOMAIN store
    /\ \A ttl \in TtlArgs, cget \in BOOLEAN :
         LET next == getItem(World, [Calm EXCEPT !.cget = cget],
                             [TableName |-> tableName, Key |-> call.args.key],
                             ttl)
         IN /\ next.thrown = Some(ApolloError(NotFoundMessage))
            /\ next.ret = None
            /\ next.w.cache = cache

\* a successful delete of a record the table held and the cache held a
\* readable entry of, while the cache keeps the entry of another record
C25_Witness ==
  /\ IsCall({"delete"})
  /\ call.thrown = None
  /\ KeyId(call.args.key) \in DOMAIN call.before.store
  /\ ArgKey \in DOMAIN call.before.cache
  /\ Parseable(call.before.cache[ArgKey].value)
  /\ Parse(call.before.cache[ArgKey].value).id = KeyId(call.args.key)
  /\ cache # EmptyCache


\* C26: if the backing-store call of put, update, updateConditional,
\* delete, query or scan (or a Details variant) fails, on a failed
\* condition or on a rejection of the client, the call rejects with the
\* store's error as it is (not wrapped), the store is called once only, no
\* call on the cache is issued, and the cache and the table are left
\* exactly as they were before the operation.
C26_StoreFailurePropagates ==
  (IsCall(FacadeOps \ {"getItem"}) /\ ~StoreResolved) =>
    /\ call.thrown # None
    /\ call.thrown[1] \in Rejections \cup {ConditionalCheckFailed}
    /\ call.ret = None
    /\ Len(CallsOn("store")) = 1
    /\ NoCacheCall
    /\ cache = call.before.cache
    /\ store = call.before.store

\* a put with a ttl that failed on its condition while the cache held
\* another version of the item, and still holds it
C26_Witness ==
  /\ IsCall({"put"})
  /\ call.thrown = Some(ConditionalCheckFailed)
  /\ call.args.ttl = Some(MaxTtl)
  /\ ItemKey(call.args.item) \in DOMAIN cache
  /\ cache[ItemKey(call.args.item)].value # Stringify(call.args.item)
  /\ Parseable(cache[ItemKey(call.args.item)].value)

\* a delete the store rejected while the cache held an entry under the key
C26_WitnessDelete ==
  /\ IsCall({"delete"})
  /\ ~StoreResolved
  /\ call.thrown # None
  /\ ArgKey \in DOMAIN cache


\* C27: when the key-value cache rejects the write of one entry of a
\* setItemsInCache, the write of every other entry of the batch is still
\* issued, and the call rejects with the cache's error once all of them
\* have been; the batch is not atomic: each entry whose write resolved,
\* before or after the rejected one, is in the cache with the batch's ttl,
\* and the key of a rejected write holds what it held before.
C27_PartialBatch ==
  IsCall({"setItemsInCache"}) =>
    LET map == call.args.items
        sets == CallsOf("cache", "set")
        failed == {j \in 1..Len(sets) : ~sets[j].ok}
    IN /\ Len(sets) = Len(map)
       /\ \A i \in 1..Len(map) : \E j \in 1..Len(sets) : sets[j].key = map[i][1]
       /\ (failed # {}) <=> (call.thrown # None)
       /\ call.thrown # None => call.thrown[1] \in Rejections
       /\ \A j \in 1..Len(sets) :
            LET k == sets[j].key
            IN IF j \in failed
               THEN /\ (k \in DOMAIN cache) <=> (k \in DOMAIN call.before.cache)
                    /\ k \in DOMAIN cache => cache[k] = call.before.cache[k]
               ELSE sets[j].ttl > 0 =>
                      /\ k \in DOMAIN cache
                      /\ cache[k] = [value |-> sets[j].value, rem |-> sets[j].ttl]

\* a batch of two whose first write the cache rejected: the call rejected,
\* the second entry is in the cache, the first is not
C27_Witness ==
  /\ IsCall({"setItemsInCache"})
  /\ Len(call.args.items) = 2
  /\ call.thrown # None
  /\ Len(CallsOf("cache", "set")) = 2
  /\ ~CallsOf("cache", "set")[1].ok
  /\ CallsOf("cache", "set")[2].ok
  /\ call.args.items[1][1] \notin DOMAIN cache
  /\ call.args.items[2][1] \in DOMAIN cache
  /\ call.args.items[2][1] \notin DOMAIN call.before.cache

\* a batch of two whose second write the cache rejected after the first
\* had been written
C27_WitnessSecond ==
  /\ IsCall({"setItemsInCache"})
  /\ Len(call.args.items) = 2
  /\ call.thrown # None
  /\ CallsOf("cache", "set")[1].ok
  /\ ~CallsOf("cache", "set")[2].ok
  /\ call.args.items[1][1] \in DOMAIN cache
  /\ call.args.items[1][1] \notin DOMAIN call.before.cache


\* the error the first failing step of the ended getItem raised, if one
\* did: the rejection of the spied retrieveFromCache, the rejection of the
\* GetCommand, the not-found error getItem throws itself, or the rejection
\* of the cache set
RaisedInGetItem ==
  LET gets == CallsOf("store", "Get")
      sets == CallsOf("cache", "set")
  IN IF call.args.mocked THEN Some(call.args.rejection)
     ELSE IF gets = <<>> THEN None
     ELSE IF ~gets[1].ok THEN Some(call.args.rejection)
     ELSE IF gets[1].ret = None THEN Some(ApolloError(NotFoundMessage))
     ELSE IF sets # <<>> /\ ~sets[1].ok THEN Some(call.args.rejection)
     ELSE None

\* C28: if a step inside the cache-through getItem raises an error (its
\* retrieveFromCache, spied on, rejects; the GetCommand rejects; no record
\* is found; the cache set rejects), getItem rejects with an ApolloError
\* that carries the raised error's message, or 'An error occurred
\* attempting to retrieve the item' when the error has none, returns
\* nothing and writes nothing to the cache: the cache is as it was, no set
\* resolved, and unless the set is the failing step no setInCache is
\* called.  When no step raises, getItem resolves.
C28_GetItemRejects ==
  IsCall({"DynamoDBCacheImpl.getItem"}) =>
    /\ (RaisedInGetItem # None) <=> (call.thrown # None)
    /\ call.thrown # None =>
         /\ call.thrown[1].name = "ApolloError"
         /\ call.thrown[1].message
              = IF RaisedInGetItem[1].message # ""
                THEN RaisedInGetItem[1].message
                ELSE "An error occurred attempting to retrieve the item"
         /\ call.ret = None
         /\ cache = call.before.cache
         /\ \A i \in 1..Len(CallsOf("cache", "set")) :
              ~CallsOf("cache", "set")[i].ok
         /\ (CallsOf("cache", "set") = <<>>) =>
              CallsOf("dynamodbCache", "setInCache") = <<>>
         /\ call.args.mocked => CallsOn("store") = <<>>

\* the spied retrieveFromCache rejected with an error that has a message,
\* while the table held the record and a ttl was given
C28_Witness ==
  /\ IsCall({"DynamoDBCacheImpl.getItem"})
  /\ call.args.mocked
  /\ call.args.rejection = Error
  /\ call.args.ttl = Some(MaxTtl)
  /\ call.args.input.TableName = otherTable
  /\ KeyId(call.args.input.Key) \in DOMAIN otherItems
  /\ call.thrown = Some(ApolloError("Error"))

\* the GetCommand rejected with nothing that has a message
C28_WitnessDefault ==
  /\ IsCall({"DynamoDBCacheImpl.getItem"})
  /\ ~call.args.mocked
  /\ CallsOf("store", "Get") # <<>>
  /\ ~CallsOf("store", "Get")[1].ok
  /\ call.args.rejection.message = ""
  /\ call.thrown = Some(ApolloError(GetItemDefaultMessage))

\* the cache set rejected after the record had been found
C28_WitnessSet ==
  /\ IsCall({"DynamoDBCacheImpl.getItem"})
  /\ CallsOf("cache", "set") # <<>>
  /\ ~CallsOf("cache", "set")[1].ok
  /\ call.thrown # None


\* C29: each getItem issues at most one cache read and at most one lookup
\* on the backing store; the lookup comes after the cache read and only
\* when that read gave no record (nothing under the key, a value that does
\* not parse, or a rejected get); neither is issued again when a call
\* fails.
C29_OneReadOneLookup ==
  IsCall({"getItem"}) =>
    LET reads == CallsOf("cache", "get")
        lookups == CallsOn("store")
    IN /\ Len(CallsOf("dynamodbCache", "retrieveFromCache")) = 1
       /\ Len(reads) = 1
       /\ reads[1].key = LookupKey
       /\ Len(lookups) <= 1
       /\ Len(CallsOf("cache", "set")) <= 1
       /\ lookups # <<>> =>
            /\ lookups[1].cmd = "Get"
            /\ IndexOf("cache", "get") < IndexOf("store", "Get")
            /\ \/ ~reads[1].ok
               \/ reads[1].ret = None
               \/ ~Parseable(reads[1].ret[1])
       /\ (reads[1].ok /\ reads[1].ret # None /\ Parseable(reads[1].ret[1])) =>
            lookups = <<>>

\* a getItem whose cache read and whose lookup were both rejected: one of
\* each was issued, and the call rejected
C29_Witness ==
  /\ IsCall({"getItem"})
  /\ Len(CallsOf("cache", "get")) = 1
  /\ ~CallsOf("cache", "get")[1].ok
  /\ Len(CallsOn("store")) = 1
  /\ ~CallsOn("store")[1].ok
  /\ call.thrown # None


\* the ended call had a positive ttl and neither rejected nor was rejected
WroteWithTtl ==
  /\ call.thrown = None
  /\ call.args.ttl # None
  /\ call.args.ttl[1] > 0

\* the entry of a record written with the call's ttl
Fresh(item) == [value |-> Stringify(item), rem |-> call.args.ttl[1]]

\* C30: a cache write replaces the entry outright.  After a successful
\* put, update, updateConditional, getItem population or query/scan
\* population with a positive ttl t, the entry under the record's key holds
\* the record just written and has t seconds to live, whatever value and
\* whatever time to live an entry under that key had before; a getItem
\* answered from the cache leaves the entry, its time to live included, as
\* it was, whatever its own ttl.
C30_OverwriteOutright ==
  /\ (IsCall({"put"}) /\ WroteWithTtl) =>
       /\ ItemKey(call.args.item) \in DOMAIN cache
       /\ cache[ItemKey(call.args.item)] = Fresh(call.args.item)
  /\ (IsCall({"update", "updateConditional"}) /\ WroteWithTtl
      /\ call.ret # None) =>
       /\ ArgKey \in DOMAIN cache
       /\ cache[ArgKey] = Fresh(call.ret[1])
  /\ (IsCall({"getItem"}) /\ ~GetItemHit /\ WroteWithTtl) =>
       /\ LookupKey \in DOMAIN cache
       /\ cache[LookupKey] = Fresh(call.ret[1])
  /\ (IsCall(ReadOps) /\ WroteWithTtl) =>
       \A i \in 1..Len(ReturnedItems) :
         /\ ItemKey(ReturnedItems[i]) \in DOMAIN cache
         /\ cache[ItemKey(ReturnedItems[i])] = Fresh(ReturnedItems[i])
  /\ GetItemHit =>
       /\ cache = call.before.cache
       /\ cache[LookupKey].rem = call.before.cache[LookupKey].rem

\* an update with the longest ttl over an entry that held another version
\* of the record and had less time to live
C30_Witness ==
  /\ IsCall({"update"})
  /\ WroteWithTtl
  /\ call.args.ttl[1] = MaxTtl
  /\ call.ret # None
  /\ ArgKey \in DOMAIN call.before.cache
  /\ call.before.cache[ArgKey].rem < MaxTtl
  /\ Parseable(call.before.cache[ArgKey].value)
  /\ call.before.cache[ArgKey].value # Stringify(call.ret[1])
  /\ cache[ArgKey] = Fresh(call.ret[1])

\* an update with a short ttl over an entry that had longer to live
C30_WitnessShorter ==
  /\ IsCall({"update"})
  /\ WroteWithTtl
  /\ call.ret # None
  /\ ArgKey \in DOMAIN call.before.cache
  /\ call.before.cache[ArgKey].rem > call.args.ttl[1]
  /\ cache[ArgKey].rem = call.args.ttl[1]

\* a getItem with the longest ttl answered from an entry with less time to
\* live, which it still has
C30_WitnessHit ==
  /\ GetItemHit
  /\ call.args.ttl = Some(MaxTtl)
  /\ call.thrown = None
  /\ cache[LookupKey].rem < MaxTtl


-----------------------------------------------------------------------------
(* C31: staleness is bounded by the ttl.  A record getItem returns from    *)
(* the cache is the one the facade wrote under that key fewer than ttl     *)
(* seconds earlier, ttl being the argument of the call that wrote it; once *)
(* ttl seconds have passed since the write the entry is gone, and a        *)
(* getItem for the key whose cache read resolves sends one GetCommand to   *)
(* the store.                                                              *)

\* the note of the facade's last write under the key of the lookup, as it
\* was when the call began
LookupNote == call.before.written[LookupKey]

\* the time of the facade's last write under the key of the lookup was up
\* when the call began
LookupExpired ==
  /\ IsCall({"getItem"})
  /\ LookupKey \in DOMAIN call.before.written
  /\ LookupNote.age >= LookupNote.ttl[1]

C31_StalenessBounded ==
  /\ GetItemHit =>
       /\ LookupKey \in DOMAIN call.before.written
       /\ LookupNote.age < LookupNote.ttl[1]
       /\ LookupNote.age + call.before.cache[LookupKey].rem = LookupNote.ttl[1]
       /\ call.ret = Some(Parse(LookupNote.value))
       /\ CallsOn("store") = <<>>
  /\ LookupExpired /\ ReadResolved =>
       /\ LookupKey \notin DOMAIN call.before.cache
       /\ Len(CallsOf("store", "Get")) = 1
  /\ \A k \in DOMAIN call.written :
       k \in DOMAIN cache <=> call.written[k].age < call.written[k].ttl[1]

\* a getItem answered from an entry written a second or more ago with a
\* record the table no longer holds as written
C31_Witness ==
  /\ GetItemHit
  /\ LookupNote.age >= 1
  /\ call.ret # None
  /\ call.args.input.TableName = tableName
  /\ \/ call.ret[1].id \notin DOMAIN store
     \/ store[call.ret[1].id] # call.ret[1]

\* a getItem for a key whose entry has expired, answered by the store
C31_WitnessExpired ==
  /\ LookupExpired
  /\ ReadResolved
  /\ call.args.input.TableName = tableName
  /\ call.thrown = None
  /\ call.ret # None
  /\ call.ret[1] # Parse(LookupNote.value)


-----------------------------------------------------------------------------
\* where in the batch the last record with the primary key of items[i] stands
LastWithKey(keySchema, items, i) ==
  CHOOSE j \in 1..Len(items) :
    /\ SameKey(keySchema, items[j], items[i])
    /\ \A n \in (j + 1)..Len(items) : ~SameKey(keySchema, items[n], items[i])

\* C32: buildItemsCacheMap on a batch in which several records share a
\* primary key yields one entry for that key, holding the last of those
\* records in input order; the mapping has as many entries as the batch has
\* distinct derived cache keys.
C32_LastWriteWins ==
  IsCall({"buildItemsCacheMap"}) =>
    LET items == call.args.items
        map == call.ret[1]
        keySchema == call.args.keySchema
        keyOf(r) == buildCacheKey(call.args.cachePrefix, call.args.table,
                                  buildKey(keySchema, r))
    IN /\ Len(map) = Cardinality({keyOf(items[i]) : i \in 1..Len(items)})
       /\ \A i \in 1..Len(items) :
            (\E j \in 1..Len(items) : j # i /\ SameKey(keySchema, items[j], items[i]))
              => /\ Cardinality({n \in 1..Len(map) : map[n][1] = keyOf(items[i])}) = 1
                 /\ MapGet(map, keyOf(items[i]))
                      = items[LastWithKey(keySchema, items, i)]


-----------------------------------------------------------------------------
\* C33: queryDetails and scanDetails return an envelope whose items are the
\* records the store reported and whose details are the store's Count,
\* ScannedCount and LastEvaluatedKey as the store gave them; what they write
\* to the cache is what query and scan write: nothing without a ttl or
\* without records, else one setItemsInCache of the records under their own
\* keys with the ttl, so that every value set is one record of the page and
\* never the envelope.
C33_DetailsEnvelope ==
  (IsCall({"queryDetails", "scanDetails"}) /\ StoreResolved) =>
    /\ call.thrown = None =>
         call.ret = Some([items |-> Page.Items,
                          details |-> [Count |-> Page.Count,
                                       ScannedCount |-> Page.ScannedCount,
                                       LastEvaluatedKey |-> Page.LastEvaluatedKey]])
    /\ CallsOf("dynamodbCache", "setItemsInCache") =
         (IF Page.Items # <<>> /\ Truthy(call.args.ttl)
          THEN <<[svc |-> "dynamodbCache", cmd |-> "setItemsInCache",
                  items |-> buildItemsCacheMap(CACHE_PREFIX_KEY, tableName,
                                               tableKeySchema, Page.Items),
                  ttl |-> call.args.ttl[1]]>>
          ELSE <<>>)
    /\ \A i \in 1..Len(CallsOn("dynamodbCache")) :
         LET c == CallsOn("dynamodbCache")[i]
         IN \/ c.cmd = "setItemsInCache"
            \/ /\ c.cmd = "setInCache"
               /\ \E n \in 1..Len(Page.Items) :
                    c.key = ItemKey(Page.Items[n]) /\ c.item = Page.Items[n]
    /\ \A i \in 1..Len(CallsOn("cache")) :
         LET c == CallsOn("cache")[i]
         IN /\ c.cmd = "set"
            /\ \E n \in 1..Len(Page.Items) :
                 /\ c.key = ItemKey(Page.Items[n])
                 /\ c.value = Stringify(Page.Items[n])
    /\ call.thrown = None =>
         \A k \in DOMAIN cache :
           \/ k \in DOMAIN call.before.cache /\ cache[k] = call.before.cache[k]
           \/ \E n \in 1..Len(Page.Items) :
                /\ k = ItemKey(Page.Items[n])
                /\ cache[k].value = Stringify(Page.Items[n])

\* a queryDetails with a ttl whose page was cut short: one record of two
\* scanned, a LastEvaluatedKey, and the record cached
C33_Witness ==
  /\ IsCall({"queryDetails"})
  /\ call.args.ttl = Some(MaxTtl)
  /\ call.thrown = None
  /\ Len(call.ret[1].items) = 1
  /\ call.ret[1].details.Count = 1
  /\ call.ret[1].details.ScannedCount = 2
  /\ call.ret[1].details.LastEvaluatedKey # None
  /\ call.before.cache = EmptyCache
  /\ DOMAIN cache = {ItemKey(call.ret[1].items[1])}

\* a scanDetails without a ttl that returned two records and their counts
\* and cached nothing
C33_WitnessScan ==
  /\ IsCall({"scanDetails"})
  /\ call.args.ttl = None
  /\ call.thrown = None
  /\ Len(call.ret[1].items) = 2
  /\ call.ret[1].details.Count = 2
  /\ call.ret[1].details.ScannedCount = 3
  /\ cache = EmptyCache


-----------------------------------------------------------------------------
-----------------------------------------------------------------------------
\* the records the store holds in a table now
Held(table) == IF table = tableName THEN store ELSE otherItems

\* C35: sequential cache coherence.  When the calls of the facade do not
\* overlap, every put, update and updateConditional has a ttl and no cache
\* call fails, an unexpired entry of the cache under the key of a primary
\* key holds the record the store holds for that key now, and getItem never
\* returns a record that differs from the store's.
C35_SequentialCoherence ==
  /\ \A table \in TableNames, key \in Keys :
       LET cacheKey == buildCacheKey(CACHE_PREFIX_KEY, table, key)
       IN cacheKey \in DOMAIN cache =>
            /\ KeyId(key) \in DOMAIN Held(table)
            /\ cache[cacheKey].value = Stringify(Held(table)[KeyId(key)])
  /\ (IsCall({"getItem"}) /\ call.thrown = None /\ call.ret # None) =>
       LET id == KeyId(call.args.input.Key)
           table == Held(call.args.input.TableName)
       IN id \in DOMAIN table /\ call.ret[1] = table[id]


-----------------------------------------------------------------------------
\* every call of the callers has completed
AllDone == \A p \in Procs : call.procs[p].op = "idle"

\* the entry of the cache for the callers' key, if there is one, holds the
\* record the table holds for that key
Coherent ==
  LET cacheKey == buildCacheKey(CACHE_PREFIX_KEY, tableName, RaceKey)
  IN cacheKey \in DOMAIN cache =>
       /\ KeyId(RaceKey) \in DOMAIN store
       /\ cache[cacheKey].value = Stringify(store[KeyId(RaceKey)])

C36_WitnessSerial ==
  /\ AllDone
  /\ ~call.overlapped
  /\ call.seen = RaceItems
  /\ store = EmptyTable
  /\ cache = EmptyCache


-----------------------------------------------------------------------------
\* C37: put, update and updateConditional called without a ttl (unset, or
\* zero, which `if (ttl)` takes for unset) leave the cache as it was: they
\* issue no call on it, and an entry cached for the primary key keeps its
\* value and its time to live, whatever the write did to the table.
C37_WriteWithoutTtl ==
  (IsCall({"put", "update", "updateConditional"}) /\ ~Truthy(call.args.ttl)) =>
    /\ NoCacheCall
    /\ cache = call.before.cache

\* a put without a ttl that changed the record of the table while the cache
\* held, and still holds, the record as it was
C37_Witness ==
  /\ IsCall({"put"})
  /\ call.args.ttl = None
  /\ call.thrown = None
  /\ ItemKey(call.args.item) \in DOMAIN call.before.cache
  /\ call.before.cache[ItemKey(call.args.item)].value # Stringify(call.args.item)
  /\ Parseable(call.before.cache[ItemKey(call.args.item)].value)
  /\ store[call.args.item.id] = call.args.item
  /\ cache[ItemKey(call.args.item)] = call.before.cache[ItemKey(call.args.item)]

\* an updateConditional without a ttl that changed the record while the
\* cache held, and still holds, another
C37_WitnessUpdate ==
  /\ IsCall({"updateConditional"})
  /\ call.args.ttl = None
  /\ call.thrown = None
  /\ call.ret # None
  /\ ArgKey \in DOMAIN call.before.cache
  /\ Parseable(call.before.cache[ArgKey].value)
  /\ call.before.cache[ArgKey].value # Stringify(call.ret[1])
  /\ cache[ArgKey] = call.before.cache[ArgKey]


-----------------------------------------------------------------------------
\* the table an operation is on: the one its input names, and for put,
\* update, updateConditional and delete, which take no table name, the
\* facade's
OpTable ==
  IF call.op \in ReadOps \cup {"getItem"} THEN call.args.input.TableName
  ELSE tableName

\* the cache keys of the primary keys of a table
KeysOfTable(table) == {buildCacheKey(CACHE_PREFIX_KEY, table, key) : key \in Keys}

\* C38: cache keys of different tables never collide.  No primary key of one
\* table derives the cache key of a primary key of another, so an operation
\* on one table issues no get, set or delete on the key-value cache under a
\* key of another table and leaves every entry of another table as it was.
C38_TablesApart ==
  /\ \A t1 \in TableNames, t2 \in TableNames :
       t1 # t2 => KeysOfTable(t1) \cap KeysOfTable(t2) = {}
  /\ IsCall(FacadeOps) =>
       \A table \in TableNames \ {OpTable} :
         /\ \A i \in 1..Len(CallsOn("cache")) :
              CallsOn("cache")[i].key \notin KeysOfTable(table)
         /\ \A k \in KeysOfTable(table) :
              /\ k \in DOMAIN cache <=> k \in DOMAIN call.before.cache
              /\ k \in DOMAIN cache => cache[k] = call.before.cache[k]

====
